---- MODULE Spec2Model ----
(***************************************************************************)
(* WebMVCEmployees: the employee service (validation, record store,        *)
(* manager relation) as a state machine.                                   *)
(*                                                                         *)
(* Strings the code inspects character by character (email, password,      *)
(* birthdate fields) are sequences of characters, each written as a string *)
(* ("U+00E9" is the one non-ASCII character, e with acute accent); Ord     *)
(* gives the code point, so that the comparisons of the code (ch >= '0')   *)
(* and the byte length that Go's len() returns are computed as the code    *)
(* does.                                                                   *)
(***************************************************************************)
EXTENDS Integers, Sequences, FiniteSets, TLC

VARIABLES
    store,    \* the employee collection: documents in insertion order
    now,      \* time.Now(), in hours since 0001-01-01T00:00:00Z
    sent,     \* the response the last completed handler wrote (ctx.JSON)
    pc,       \* per in-flight request: the store operation it performs next
    req,      \* per in-flight request: its arguments and locals
    created,  \* history: per email, the record the last successful
              \* createEmployee inserted, whether its manager field was
              \* written since, and whether the latest delete removed it
    call,     \* a direct call of a function: its name and arguments (of main,
              \* its position too)
    ret       \* its result

vars == <<store, now, sent, pc, req, created, call, ret>>

---------------------------------------------------------------------------
(* Bounds of the model.                                                    *)

MaxPwLen == 3      \* longest password passed to validatePassword directly
MaxTicks == 2      \* how many times the clock advances in a behaviour
NumProcs == 2      \* requests in flight at the same time

---------------------------------------------------------------------------
(* Characters and strings.                                                 *)

Ord ==
    ("0" :> 48) @@ ("1" :> 49) @@ ("2" :> 50) @@ ("3" :> 51) @@ ("4" :> 52) @@
    ("5" :> 53) @@ ("6" :> 54) @@ ("7" :> 55) @@ ("8" :> 56) @@ ("9" :> 57) @@
    ("+" :> 43) @@ ("-" :> 45) @@ ("." :> 46) @@ ("@" :> 64) @@
    ("A" :> 65) @@ ("B" :> 66) @@ ("T" :> 84) @@ ("X" :> 88) @@ ("Y" :> 89) @@
    ("Z" :> 90) @@
    ("a" :> 97) @@ ("b" :> 98) @@ ("c" :> 99) @@ ("t" :> 116) @@
    ("x" :> 120) @@ ("y" :> 121) @@ ("z" :> 122) @@ ("U+00E9" :> 233)

\* The number of bytes of the UTF-8 encoding of one character.
RuneLen(ch) == IF Ord[ch] < 128 THEN 1 ELSE IF Ord[ch] < 2048 THEN 2 ELSE 3

\* Go's len(s) of a string: its length in bytes.
RECURSIVE len(_)
len(s) == IF s = <<>> THEN 0 ELSE RuneLen(Head(s)) + len(Tail(s))

\* All strings over an alphabet of exactly n, and of at most n, characters.
StringsOfLen(alphabet, n) == [1..n -> alphabet]
StringsUpTo(alphabet, n) == UNION {StringsOfLen(alphabet, k) : k \in 0..n}

IsDigit(ch) == Ord[ch] >= Ord["0"] /\ Ord[ch] <= Ord["9"]

\* The value of a string of decimal digits.
RECURSIVE DigitsValue(_)
DigitsValue(s) ==
    IF s = <<>> THEN 0
    ELSE 10 * DigitsValue(SubSeq(s, 1, Len(s) - 1)) + (Ord[s[Len(s)]] - Ord["0"])

\* strconv.Atoi on a short string: an optional sign, then one or more
\* decimal digits; anything else is a syntax error.
Atoi(s) ==
    LET signed == s # <<>> /\ s[1] \in {"+", "-"}
        digits == IF signed THEN Tail(s) ELSE s
    IN  IF digits = <<>> \/ \E i \in 1..Len(digits) : ~IsDigit(digits[i])
        THEN [ok |-> FALSE, n |-> 0]
        ELSE [ok |-> TRUE,
              n  |-> IF signed /\ s[1] = "-" THEN 0 - DigitsValue(digits)
                     ELSE DigitsValue(digits)]

---------------------------------------------------------------------------
(* Go's int, on the 64-bit platforms the service is built for: a value is  *)
(* its 8 bytes, the least significant first, in two's complement, and the  *)
(* arithmetic of the code wraps around at 2^64 as Go's does.               *)

IntBytes == 8
ByteValues == 256

\* The k low bytes of the number n of the model.
RECURSIVE BytesOf(_, _)
BytesOf(n, k) ==
    IF k = 0 THEN <<>> ELSE <<n % ByteValues>> \o BytesOf(n \div ByteValues, k - 1)

\* The int with the value n.
MachineInt(n) == BytesOf(n, IntBytes)

IsNegative(v) == v[IntBytes] >= ByteValues \div 2

\* v lies in 0 .. 2^24 - 1, and its value as a number of the model.
IsSmall(v) == \A i \in 4..IntBytes : v[i] = 0
SmallValue(v) == v[1] + ByteValues * v[2] + ByteValues * ByteValues * v[3]

\* a + b.
RECURSIVE AddBytes(_, _, _)
AddBytes(a, b, carry) ==
    IF a = <<>> THEN <<>>
    ELSE <<(Head(a) + Head(b) + carry) % ByteValues>>
             \o AddBytes(Tail(a), Tail(b), (Head(a) + Head(b) + carry) \div ByteValues)

Plus(a, b) == AddBytes(a, b, 0)

\* a * b: byte k of the product is the sum of the products a[i] * b[k+1-i]
\* and of the carry from byte k - 1.
RECURSIVE Column(_, _, _, _)
Column(a, b, k, i) ==
    IF i > k THEN 0 ELSE a[i] * b[k + 1 - i] + Column(a, b, k, i + 1)

RECURSIVE MulBytes(_, _, _, _)
MulBytes(a, b, k, carry) ==
    IF k > IntBytes THEN <<>>
    ELSE <<(Column(a, b, k, 1) + carry) % ByteValues>>
             \o MulBytes(a, b, k + 1, (Column(a, b, k, 1) + carry) \div ByteValues)

Times(a, b) == MulBytes(a, b, 1, 0)

\* v < n and v > n for a number n >= 0 of the model that fits in 24 bits.
LessThan(v, n) == IsNegative(v) \/ (IsSmall(v) /\ SmallValue(v) < n)
GreaterThan(v, n) == ~IsNegative(v) /\ (~IsSmall(v) \/ SmallValue(v) > n)

\* (page - 1) * size, as the service functions compute it.
Skip(page, size) == Times(Plus(page, MachineInt(0 - 1)), size)

---------------------------------------------------------------------------
(* Time: time.Date, time.Time.After, Year and YearDay, as package time     *)
(* computes them for UTC. An instant is a number of hours since            *)
(* 0001-01-01T00:00:00Z (the clock read to the hour): every instant the    *)
(* code compares the clock with is a midnight, so the comparisons come out *)
(* as with the full resolution.                                            *)

HoursPerDay == 24

IsLeap(year) == year % 4 = 0 /\ (year % 100 # 0 \/ year % 400 = 0)

\* Days before the first of each month in a non-leap year.
DaysBefore == <<0, 31, 59, 90, 120, 151, 181, 212, 243, 273, 304, 334>>

\* Days from 0001-01-01 to the first of January of year.
DaysBeforeYear(year) ==
    LET y == year - 1
    IN  365 * y + (y \div 4) - (y \div 100) + (y \div 400)

\* time.Date(year, month, day, 0, 0, 0, 0, time.UTC): month and day may be
\* outside their usual ranges and are normalised (October 32 is November 1).
Date(year, month, day) ==
    LET m0 == month - 1
        y  == year + (m0 \div 12)
        m  == (m0 % 12) + 1
        d  == DaysBeforeYear(y) + DaysBefore[m]
              + (IF IsLeap(y) /\ m >= 3 THEN 1 ELSE 0) + (day - 1)
    IN  d * HoursPerDay

After(t, u) == t > u

Before(t, u) == t < u

Year(t) ==
    LET d == t \div HoursPerDay
    IN  CHOOSE y \in (d \div 366)..((d \div 365) + 1) :
            DaysBeforeYear(y) <= d /\ d < DaysBeforeYear(y + 1)

YearDay(t) == (t \div HoursPerDay) - DaysBeforeYear(Year(t)) + 1

---------------------------------------------------------------------------
(* Errors.                                                                 *)

StatusOK == 200
StatusBadRequest == 400
StatusNotFound == 404
StatusConflict == 409
StatusInternalServerError == 500

NewHTTPError(code, msg) == [code |-> code, msg |-> msg]

\* The nil error.
NoError == [code |-> 0, msg |-> ""]

---------------------------------------------------------------------------
(* Validation.                                                             *)

\* mail.ParseAddress on a string without spaces, quotes, brackets or
\* comments: an addr-spec, dot-atom "@" dot-atom.
IsAtext(ch) ==
    ch \notin {".", "@"} /\ (Ord[ch] >= 128 \/ (Ord[ch] >= 33 /\ Ord[ch] <= 126))

IsDotAtom(s) ==
    /\ s # <<>>
    /\ \A i \in 1..Len(s) : IsAtext(s[i]) \/ s[i] = "."
    /\ s[1] # "." /\ s[Len(s)] # "."
    /\ \A i \in 1..(Len(s) - 1) : ~(s[i] = "." /\ s[i + 1] = ".")

validateEmail(email) ==
    IF \E i \in 1..Len(email) :
          /\ email[i] = "@"
          /\ IsDotAtom(SubSeq(email, 1, i - 1))
          /\ IsDotAtom(SubSeq(email, i + 1, Len(email)))
    THEN NoError
    ELSE NewHTTPError(StatusBadRequest, "mail: invalid address")

\* The width and numeric checks of validateBirthdate, in the code's order.
birthdateFormat(birthdate) ==
    IF len(birthdate.day) # 2
    THEN NewHTTPError(StatusBadRequest, "birthdate day must be two digits")
    ELSE IF len(birthdate.month) # 2
    THEN NewHTTPError(StatusBadRequest, "birthdate month must be two digits")
    ELSE IF len(birthdate.year) # 4
    THEN NewHTTPError(StatusBadRequest, "birthdate year must be four digits")
    ELSE IF ~Atoi(birthdate.day).ok
    THEN NewHTTPError(StatusBadRequest, "birthdate day must be numeric")
    ELSE IF ~Atoi(birthdate.month).ok
    THEN NewHTTPError(StatusBadRequest, "birthdate month must be numeric")
    ELSE IF ~Atoi(birthdate.year).ok
    THEN NewHTTPError(StatusBadRequest, "birthdate year must be numeric")
    ELSE NoError

\* The instant time.Date composes from the three fields.
birthDate(birthdate) ==
    Date(Atoi(birthdate.year).n, Atoi(birthdate.month).n, Atoi(birthdate.day).n)

\* validateBirthdate with !birthDate.Before(now) for birthDate.After(now).
validateBirthdate_NotBefore(birthdate, t) ==
    IF birthdateFormat(birthdate) # NoError THEN birthdateFormat(birthdate)
    ELSE IF ~Before(birthDate(birthdate), t)
    THEN NewHTTPError(StatusBadRequest, "birthdate cannot be in the future")
    ELSE NoError

validateBirthdate(birthdate, t) ==
    IF birthdateFormat(birthdate) # NoError THEN birthdateFormat(birthdate)
    ELSE IF After(birthDate(birthdate), t)
    THEN NewHTTPError(StatusBadRequest, "birthdate cannot be in the future")
    ELSE NoError

validatePassword(password) ==
    LET hasDigit == \E i \in 1..Len(password) :
                        Ord[password[i]] >= Ord["0"] /\ Ord[password[i]] <= Ord["9"]
        hasUpper == \E i \in 1..Len(password) :
                        Ord[password[i]] >= Ord["A"] /\ Ord[password[i]] <= Ord["Z"]
    IN  IF len(password) < 3
        THEN NewHTTPError(StatusBadRequest, "password must be at least 3 characters")
        ELSE IF ~hasDigit \/ ~hasUpper
        THEN NewHTTPError(StatusBadRequest,
                 "password must contain at least one digit and one uppercase letter")
        ELSE NoError

---------------------------------------------------------------------------
(* Employee documents and the collection. The optional manager, a pointer  *)
(* to a string, is a sequence of no element (nil) or of one element (the   *)
(* email pointed to).                                                      *)

Nil == <<>>
Ptr(s) == <<s>>

Employee(email, name, password, birthdate, roles, manager) ==
    [email |-> email, name |-> name, password |-> password,
     birthdate |-> birthdate, roles |-> roles, manager |-> manager]

\* models.Employee{}: the zero value.
ZeroEmployee ==
    Employee(<<>>, "", <<>>, [day |-> <<>>, month |-> <<>>, year |-> <<>>], <<>>, Nil)

\* Strings in the collection's sort order: byte-wise, which for UTF-8 is the
\* order of the code points.
RECURSIVE StringLess(_, _)
StringLess(a, b) ==
    IF b = <<>> THEN FALSE
    ELSE IF a = <<>> THEN TRUE
    ELSE IF Ord[Head(a)] # Ord[Head(b)] THEN Ord[Head(a)] < Ord[Head(b)]
    ELSE StringLess(Tail(a), Tail(b))

\* The code point of ch with an ASCII letter folded to lower case.
FoldCase(ch) ==
    IF Ord[ch] >= Ord["A"] /\ Ord[ch] <= Ord["Z"] THEN Ord[ch] + 32 ELSE Ord[ch]

\* {"$regex": "@" + domain + "$", "$options": "i"} on an email, for a
\* domain of letters, digits and dots: the pattern is not anchored at its
\* start, a dot of the pattern matches any character, letters match in
\* either case.
MatchesDomainRegex(email, domain) ==
    \E at \in 1..Len(email) :
        /\ email[at] = "@"
        /\ Len(email) - at = Len(domain)
        /\ \A i \in 1..Len(domain) :
               domain[i] = "." \/ FoldCase(email[at + i]) = FoldCase(domain[i])

\* A filter document (bson.M) is a record: email, password and manager are
\* matched by equality (manager against the string the field points to),
\* roles by membership in the array, email_regex by the $regex on email.
Matches(doc, filter) ==
    \A key \in DOMAIN filter :
        IF key = "roles" THEN \E i \in 1..Len(doc.roles) : doc.roles[i] = filter.roles
        ELSE IF key = "manager" THEN doc.manager = Ptr(filter.manager)
        ELSE IF key = "email_regex" THEN MatchesDomainRegex(doc.email, filter.email_regex)
        ELSE doc[key] = filter[key]

Least(S) == CHOOSE i \in S : \A j \in S : i <= j

\* Collection.Find that yields the first matching document only.
Find_FirstOnly(docs, filter) ==
    LET matching == SelectSeq(docs, LAMBDA doc : Matches(doc, filter))
    IN  IF matching = <<>> THEN <<>> ELSE <<matching[1]>>

\* Collection.Find(ctx, filter): the documents that match, in the order of
\* the collection.
Find(docs, filter) == SelectSeq(docs, LAMBDA doc : Matches(doc, filter))

\* Collection.FindOne(filter).Decode: the first matching document, or
\* mongo.ErrNoDocuments (found = FALSE).
FindOne(docs, filter) ==
    IF Find(docs, filter) = <<>>
    THEN [found |-> FALSE, doc |-> ZeroEmployee]
    ELSE [found |-> TRUE, doc |-> Find(docs, filter)[1]]

\* Collection.InsertOne that replaces the document of the same email and
\* reports the duplicate key.
InsertOne_ReplacesDuplicate(docs, doc) ==
    IF \E i \in 1..Len(docs) : docs[i].email = doc.email
    THEN [docs |-> [i \in 1..Len(docs) |->
                       IF docs[i].email = doc.email THEN doc ELSE docs[i]],
          duplicate |-> TRUE]
    ELSE [docs |-> Append(docs, doc), duplicate |-> FALSE]

\* Collection.InsertOne without the unique index on email.
InsertOne_NoUniqueIndex(docs, doc) == [docs |-> Append(docs, doc), duplicate |-> FALSE]

\* Collection.InsertOne under the unique index on email that
\* NewEmployeeRepository creates: a document whose email is already in the
\* collection is refused with a duplicate key error.
InsertOne(docs, doc) ==
    IF \E i \in 1..Len(docs) : docs[i].email = doc.email
    THEN [docs |-> docs, duplicate |-> TRUE]
    ELSE [docs |-> Append(docs, doc), duplicate |-> FALSE]

\* The update documents of the service.
Set(managerEmail) == [op \in {"$set"} |-> [manager |-> managerEmail]]
Unset == [op \in {"$unset"} |-> [manager |-> <<>>]]

\* Collection.UpdateOne that replaces the first matching document by one
\* with the manager of the update and no roles.
UpdateOne_ReplacesDocument(docs, filter, update) ==
    LET matching == {i \in 1..Len(docs) : Matches(docs[i], filter)}
    IN  IF matching = {} THEN docs
        ELSE [docs EXCEPT ![Least(matching)] =
                  [@ EXCEPT !.roles = <<>>,
                            !.manager = IF "$set" \in DOMAIN update
                                        THEN Ptr(update["$set"].manager) ELSE Nil]]

\* Collection.UpdateOne(filter, update) with the updates of the service,
\* {"$set": {manager: m}} and {"$unset": {manager: ""}}: the manager field
\* of the first matching document is written; no match is not an error.
UpdateOne(docs, filter, update) ==
    LET matching == {i \in 1..Len(docs) : Matches(docs[i], filter)}
    IN  IF matching = {} THEN docs
        ELSE [docs EXCEPT ![Least(matching)].manager =
                  IF "$set" \in DOMAIN update THEN Ptr(update["$set"].manager) ELSE Nil]

\* Collection.DeleteMany(bson.M{}) that leaves the first document behind.
DeleteMany_KeepsOne(docs) == IF docs = <<>> THEN <<>> ELSE <<docs[1]>>

\* Collection.DeleteMany(bson.M{}).
DeleteMany(docs) == <<>>

\* SetSort on email ascending: selection of the least email, the earlier
\* document first among equal emails.
RECURSIVE SortByEmail(_)
SortByEmail(docs) ==
    IF docs = <<>> THEN <<>>
    ELSE LET first == Least({i \in 1..Len(docs) :
                         \A j \in 1..Len(docs) :
                             ~StringLess(docs[j].email, docs[i].email)})
         IN  <<docs[first]>>
                 \o SortByEmail(SubSeq(docs, 1, first - 1)
                                    \o SubSeq(docs, first + 1, Len(docs)))

\* SetSkip(skip).SetLimit(limit) on a cursor, for skip >= 0 and limit >= 0
\* (the handlers pass no size below 1); a limit of 0 is no limit.
SkipLimit(docs, skip, limit) ==
    LET from == IF IsSmall(skip) /\ SmallValue(skip) < Len(docs)
                THEN SmallValue(skip) ELSE Len(docs)
        count == IF IsSmall(limit) /\ SmallValue(limit) # 0
                     /\ SmallValue(limit) < Len(docs) - from
                 THEN SmallValue(limit) ELSE Len(docs) - from
    IN  SubSeq(docs, from + 1, from + count)

\* The text of the error the server answers a find command with a negative
\* skip with.
SkipError == "BSON field 'skip' value must be >= 0"

\* Collection.Find(filter, options) then cursor.All, on the documents the
\* filter and the sort leave: the server refuses a negative skip.
FindAll(docs, skip, limit) ==
    IF IsNegative(skip) THEN [docs |-> <<>>, err |-> SkipError]
    ELSE [docs |-> SkipLimit(docs, skip, limit), err |-> ""]

\* emp.Password = "".
ClearPassword(emp) == [emp EXCEPT !.password = <<>>]

\* for i := range employees { employees[i].Password = "" }
ClearPasswords(docs) == [i \in 1..Len(docs) |-> ClearPassword(docs[i])]

---------------------------------------------------------------------------
(* EmployeeService. Each function is given the collection it reads (docs)  *)
(* and returns its results, the collection it leaves (docs) among them.    *)

validateManager(docs, managerEmail) ==
    IF managerEmail = <<>> THEN NoError
    ELSE IF ~FindOne(docs, [email |-> managerEmail]).found
    THEN NewHTTPError(StatusBadRequest, "manager not found")
    ELSE NoError

\* CreateEmployee, the checks that read no document.
validateEmployee(emp, t) ==
    IF emp.email = <<>> \/ emp.name = ""
    THEN NewHTTPError(StatusBadRequest, "email and name are required")
    ELSE IF validateEmail(emp.email) # NoError
    THEN NewHTTPError(StatusBadRequest, "invalid email format")
    ELSE IF validateBirthdate(emp.birthdate, t) # NoError
    THEN validateBirthdate(emp.birthdate, t)
    ELSE validatePassword(emp.password)

\* CreateEmployee, the insert and what it returns.
insertEmployee(docs, emp) ==
    LET r == InsertOne(docs, emp)
    IN  IF r.duplicate
        THEN [docs |-> r.docs, emp |-> ZeroEmployee,
              err |-> NewHTTPError(StatusConflict,
                          "employee with this email already exists")]
        ELSE [docs |-> r.docs, emp |-> ClearPassword(emp), err |-> NoError]

Failed(docs, err) == [docs |-> docs, emp |-> ZeroEmployee, err |-> err]

CreateEmployee(docs, t, emp) ==
    IF validateEmployee(emp, t) # NoError
    THEN Failed(docs, validateEmployee(emp, t))
    ELSE IF emp.manager # Nil /\ validateManager(docs, emp.manager[1]) # NoError
    THEN Failed(docs, validateManager(docs, emp.manager[1]))
    ELSE insertEmployee(docs, emp)

\* GetEmployee that returns the document as stored.
GetEmployee_KeepsPassword(docs, email, password) ==
    LET r == FindOne(docs, [email |-> email, password |-> password])
    IN  IF ~r.found
        THEN Failed(docs, NewHTTPError(StatusNotFound, "employee not found"))
        ELSE [docs |-> docs, emp |-> r.doc, err |-> NoError]

GetEmployee(docs, email, password) ==
    LET r == FindOne(docs, [email |-> email, password |-> password])
    IN  IF ~r.found
        THEN Failed(docs, NewHTTPError(StatusNotFound, "employee not found"))
        ELSE [docs |-> docs, emp |-> ClearPassword(r.doc), err |-> NoError]

\* What a list function returns from the cursor: the error of the store as
\* an HTTPError of status 500 with the error's text, or else the employees
\* with their passwords cleared.
Listed(r) ==
    IF r.err # ""
    THEN [employees |-> <<>>, err |-> NewHTTPError(StatusInternalServerError, r.err)]
    ELSE [employees |-> ClearPasswords(r.docs), err |-> NoError]

GetAllEmployees(docs, page, size) ==
    Listed(FindAll(SortByEmail(Find(docs, <<>>)), Skip(page, size), size))

\* No sort is requested: the documents come in the collection's order.
GetEmployeesByEmailDomain(docs, domain, page, size) ==
    Listed(FindAll(Find(docs, [email_regex |-> domain]), Skip(page, size), size))

GetEmployeesByRole(docs, role, page, size) ==
    Listed(FindAll(SortByEmail(Find(docs, [roles |-> role])), Skip(page, size), size))

\* sort.Slice by birth date on the few documents of the model: an insertion
\* sort, which keeps documents of equal date in their order.
RECURSIVE SortByBirthDate(_)
SortByBirthDate(docs) ==
    IF docs = <<>> THEN <<>>
    ELSE LET first == Least({i \in 1..Len(docs) :
                         \A j \in 1..Len(docs) :
                             ~Before(birthDate(docs[j].birthdate),
                                     birthDate(docs[i].birthdate))})
         IN  <<docs[first]>>
                 \o SortByBirthDate(SubSeq(docs, 1, first - 1)
                                        \o SubSeq(docs, first + 1, Len(docs)))

\* The run-time panic of filtered[start:end] with start below 0 or above
\* end: no HTTPError, the function does not return.
SliceBoundsPanic == [code |-> -2, msg |-> "slice bounds out of range"]

calculatedAge(birthdate, t) ==
    (Year(t) - Year(birthDate(birthdate)))
        - (IF YearDay(t) < YearDay(birthDate(birthdate)) THEN 1 ELSE 0)

GetEmployeesByAge(docs, ageInYears, t, page, size) ==
    LET filtered ==
            SortByBirthDate(ClearPasswords(SelectSeq(Find(docs, <<>>), LAMBDA doc :
                /\ Atoi(doc.birthdate.year).ok /\ Atoi(doc.birthdate.month).ok
                /\ Atoi(doc.birthdate.day).ok
                /\ calculatedAge(doc.birthdate, t) = ageInYears)))
        start == Skip(page, size)
        end == Plus(start, size)
    IN  IF GreaterThan(start, Len(filtered))
        THEN [employees |-> <<>>, err |-> NoError]
        ELSE IF GreaterThan(end, Len(filtered))
        THEN IF IsNegative(start) THEN [employees |-> <<>>, err |-> SliceBoundsPanic]
             ELSE [employees |-> SubSeq(filtered, SmallValue(start) + 1, Len(filtered)),
                   err |-> NoError]
        ELSE IF IsNegative(start) \/ IsNegative(end)
                    \/ SmallValue(end) < SmallValue(start)
        THEN [employees |-> <<>>, err |-> SliceBoundsPanic]
        ELSE [employees |-> SubSeq(filtered, SmallValue(start) + 1, SmallValue(end)),
              err |-> NoError]

DeleteAllEmployees(docs) == DeleteMany(docs)

\* SetManager that writes the manager before it validates it.
SetManager_UpdatesBeforeValidation(docs, employeeEmail, managerEmail) ==
    IF ~FindOne(docs, [email |-> employeeEmail]).found
    THEN Failed(docs, NewHTTPError(StatusNotFound, "employee not found"))
    ELSE [docs |-> UpdateOne(docs, [email |-> employeeEmail], Set(managerEmail)),
          emp |-> ZeroEmployee, err |-> validateManager(docs, managerEmail)]

SetManager(docs, employeeEmail, managerEmail) ==
    IF ~FindOne(docs, [email |-> employeeEmail]).found
    THEN Failed(docs, NewHTTPError(StatusNotFound, "employee not found"))
    ELSE IF validateManager(docs, managerEmail) # NoError
    THEN Failed(docs, validateManager(docs, managerEmail))
    ELSE [docs |-> UpdateOne(docs, [email |-> employeeEmail], Set(managerEmail)),
          emp |-> ZeroEmployee, err |-> NoError]

\* GetManager that looks the manager up before it asks whether one is set.
GetManager_LooksUpFirst(docs, employeeEmail) ==
    LET emp == FindOne(docs, [email |-> employeeEmail])
        manager == IF emp.doc.manager = Nil THEN [found |-> FALSE, doc |-> ZeroEmployee]
                   ELSE FindOne(docs, [email |-> emp.doc.manager[1]])
    IN  IF ~emp.found
        THEN Failed(docs, NewHTTPError(StatusNotFound, "employee not found"))
        ELSE IF ~manager.found
        THEN Failed(docs, NewHTTPError(StatusNotFound, "manager not found"))
        ELSE [docs |-> docs, emp |-> ClearPassword(manager.doc), err |-> NoError]

GetManager(docs, employeeEmail) ==
    LET emp == FindOne(docs, [email |-> employeeEmail])
        manager == FindOne(docs, [email |-> emp.doc.manager[1]])
    IN  IF ~emp.found
        THEN Failed(docs, NewHTTPError(StatusNotFound, "employee not found"))
        ELSE IF emp.doc.manager = Nil
        THEN Failed(docs, NewHTTPError(StatusNotFound, "manager not set"))
        ELSE IF ~manager.found
        THEN Failed(docs, NewHTTPError(StatusNotFound, "manager not found"))
        ELSE [docs |-> docs, emp |-> ClearPassword(manager.doc), err |-> NoError]

\* GetSubordinates that returns the documents as stored.
GetSubordinates_KeepsPasswords(docs, managerEmail, page, size) ==
    [employees |-> FindAll(SortByEmail(Find(docs, [manager |-> managerEmail])),
                           Skip(page, size), size).docs,
     err |-> NoError]

GetSubordinates(docs, managerEmail, page, size) ==
    Listed(FindAll(SortByEmail(Find(docs, [manager |-> managerEmail])),
                   Skip(page, size), size))

\* RemoveManager that updates no document.
RemoveManager_UpdatesNothing(docs, employeeEmail) == docs

RemoveManager(docs, employeeEmail) ==
    UpdateOne(docs, [email |-> employeeEmail], Unset)

---------------------------------------------------------------------------
(* The requests of the model.                                              *)

Alice == <<"a", "@", "x", ".", "y">>
Bob   == <<"b", "@", "x", ".", "y">>
Carol == <<"c", "@", "x", "z", "y">>

\* The clock starts on 2024-02-29 at midnight.
StartOfDay == Date(2024, 2, 29)

Birthdate(day, month, year) == [day |-> day, month |-> month, year |-> year]

Today     == Birthdate(<<"2", "9">>, <<"0", "2">>, <<"2", "0", "2", "4">>)
Tomorrow  == Birthdate(<<"0", "1">>, <<"0", "3">>, <<"2", "0", "2", "4">>)
NextYear  == Birthdate(<<"0", "1">>, <<"0", "1">>, <<"2", "0", "2", "5">>)
In1990    == Birthdate(<<"0", "1">>, <<"0", "1">>, <<"1", "9", "9", "0">>)
Feb31     == Birthdate(<<"3", "1">>, <<"0", "2">>, <<"2", "0", "0", "0">>)
PlusOne   == Birthdate(<<"+", "1">>, <<"0", "1">>, <<"1", "9", "9", "0">>)
OneDigit  == Birthdate(<<"1">>, <<"0", "1">>, <<"1", "9", "9", "0">>)
NotNumber == Birthdate(<<"x", "1">>, <<"0", "1">>, <<"1", "9", "9", "0">>)

PasswordA == <<"A", "1", "a">>
PasswordZ == <<"Z", "9", "z">>

\* Records the service accepts (the third has the email of the first and
\* differs from it in every other field) ...
AcceptedEmployees ==
    { Employee(Alice, "Alice", PasswordA, In1990, <<"Dev">>, Nil),
      Employee(Bob, "Bob", PasswordZ, Feb31, <<"Dev", "Ops">>, Ptr(Alice)),
      Employee(Alice, "Alicia", PasswordZ, PlusOne, <<>>, Ptr(<<>>)),
      Employee(Bob, "Bob", PasswordA, Today, <<"Ops">>, Nil) }

\* ... and the first of them with one field changed to a value validation
\* is to refuse.
RefusedEmployees ==
    LET emp == Employee(Alice, "Alice", PasswordA, In1990, <<"Dev">>, Nil)
    IN  {[emp EXCEPT !.email = e] : e \in {<<>>, <<"a", "b">>, <<"a", "@">>}}
        \cup {[emp EXCEPT !.name = ""]}
        \cup {[emp EXCEPT !.password = pw] :
                  pw \in {<<"T", "1">>, <<"t", "a", "1">>, <<"T", "a", "a">>}}
        \cup {[emp EXCEPT !.birthdate = b] :
                  b \in {Tomorrow, NextYear, OneDigit, NotNumber}}
        \cup {[emp EXCEPT !.manager = Ptr(m)] : m \in {Bob, Carol}}

EmployeeInputs == AcceptedEmployees \cup RefusedEmployees

EmailInputs == {Alice, Bob, Carol}
GetPasswordInputs == {PasswordA, PasswordZ, <<>>}
ManagerEmailInputs == {<<>>, Alice, Bob, Carol}

MaxPage == 2
MaxSize == 2
\* A page whose (page - 1) * size is 0 in 64 bits with the size 4, and the
\* greatest page, whose (page - 1) * size is -4 with the size 2.
WrappingPage == <<1, 0, 0, 0, 0, 0, 0, 64>>
GreatestPage == <<255, 255, 255, 255, 255, 255, 255, 127>>

\* The page and size of a request, after strconv.Atoi.
PageSizeInputs ==
    {<<MachineInt(page), MachineInt(size)>> : page \in 0..MaxPage, size \in 0..MaxSize}
        \cup {<<MachineInt(0 - 1), MachineInt(1)>>,
              <<WrappingPage, MachineInt(4)>>, <<GreatestPage, MachineInt(2)>>}

ListInputs ==
    [criteria : {""}, value : {<<>>}]
        \cup [criteria : {"byEmailDomain"},
              value : {<<>>, <<"x", ".", "y">>, <<"X", ".", "Y">>}]
        \cup [criteria : {"byRole"}, value : {"", "Dev", "Ops"}]
        \cup [criteria : {"byAge"}, value : {<<"3", "4">>, <<"2", "3">>, <<"x">>}]

---------------------------------------------------------------------------
(* EmployeeController: one action per handler. A handler runs from the     *)
(* request to the response it writes; sent holds that response with the    *)
(* request it answers.                                                     *)

NoCall == [fn |-> "none", arg |-> <<>>]
Pending == [code |-> -1, msg |-> "pending"]
NoResponse == [op |-> "none", args |-> <<>>, code |-> 0, error |-> "", body |-> <<>>]
NoRequest == [fn |-> "none", arg |-> <<>>, resp |-> NoResponse]

\* ctx.JSON(http.StatusOK, ...) with the employees written, if any.
OK(op, args, body) ==
    [op |-> op, args |-> args, code |-> StatusOK, error |-> "", body |-> body]

\* ctx.JSON(code, gin.H{"error": msg}).
ErrorJSON(op, args, code, msg) ==
    [op |-> op, args |-> args, code |-> code, error |-> msg, body |-> <<>>]

\* The handlers' mapping of a service error: every error of the service is
\* an *errors.HTTPError, answered with its code and message.
HandleError(op, args, err) == ErrorJSON(op, args, err.code, err.msg)

\* HTTPError.Error(): "<code>: <msg>", for the errors SetManager returns.
ErrorText(err) ==
    IF err = NewHTTPError(StatusNotFound, "employee not found")
    THEN "404: employee not found"
    ELSE IF err = NewHTTPError(StatusBadRequest, "manager not found")
    THEN "400: manager not found"
    ELSE IF err.code = StatusInternalServerError
    THEN "500: " \o err.msg
    ELSE "other"

\* The history of created records after an insert, after a manager update
\* that matched a document, and after the delete of the documents of some
\* emails.
Inserted(emp) ==
    (emp.email :> [emp |-> emp, touched |-> FALSE, deleted |-> FALSE]) @@ created
Touched(email) ==
    IF email \in DOMAIN created /\ \E i \in 1..Len(store) : store[i].email = email
    THEN [created EXCEPT ![email].touched = TRUE]
    ELSE created
Deleted(emails) ==
    [e \in {d \in DOMAIN created : ~created[d].deleted} |->
        IF e \in emails
        THEN [created[e] EXCEPT !.touched = FALSE, !.deleted = TRUE]
        ELSE created[e]]

\* A createEmployee for this email has succeeded and no delete has removed
\* its record since.
Live(email) == email \in DOMAIN created /\ ~created[email].deleted

CreateEmployeeHandler(emp) ==
    LET r == CreateEmployee(store, now, emp)
    IN  /\ sent = NoResponse
        /\ store' = r.docs
        /\ sent' = IF r.err # NoError THEN HandleError("createEmployee", emp, r.err)
                   ELSE OK("createEmployee", emp, <<r.emp>>)
        /\ created' = IF r.err = NoError THEN Inserted(emp) ELSE created
        /\ UNCHANGED <<now, pc, req, call, ret>>

\* A GetEmployeeHandler that looks the employee up by email and then
\* compares the password.
GetEmployeeHandler_ComparesPassword(email, password) ==
    LET args == [email |-> email, password |-> password]
        r == FindOne(store, [email |-> email])
    IN  /\ sent = NoResponse
        /\ sent' = IF email = <<>> \/ password = <<>>
                   THEN ErrorJSON("getEmployee", args, StatusBadRequest,
                            "Missing email or password")
                   ELSE IF ~r.found
                   THEN ErrorJSON("getEmployee", args, StatusNotFound,
                            "employee not found")
                   ELSE IF r.doc.password # password
                   THEN ErrorJSON("getEmployee", args, StatusNotFound,
                            "wrong password")
                   ELSE OK("getEmployee", args, <<ClearPassword(r.doc)>>)
        /\ UNCHANGED <<store, now, pc, req, created, call, ret>>

GetEmployeeHandler(email, password) ==
    LET args == [email |-> email, password |-> password]
        r == GetEmployee(store, email, password)
    IN  /\ sent = NoResponse
        /\ sent' = IF email = <<>> \/ password = <<>>
                   THEN ErrorJSON("getEmployee", args, StatusBadRequest,
                            "Missing email or password")
                   ELSE IF r.err # NoError THEN HandleError("getEmployee", args, r.err)
                   ELSE OK("getEmployee", args, <<r.emp>>)
        /\ UNCHANGED <<store, now, pc, req, created, call, ret>>

\* The response to a list request: gin's Recovery answers a panic of the
\* handler with the status 500 and no body, an error of the service goes
\* through the handler's error mapping, and the employees are written with
\* the status 200.
ListResponse(op, args, r) ==
    IF r.err = SliceBoundsPanic THEN ErrorJSON(op, args, StatusInternalServerError, "")
    ELSE IF r.err # NoError THEN HandleError(op, args, r.err)
    ELSE OK(op, args, r.employees)

\* The service call ListEmployeesHandler dispatches to, by criteria.
listEmployees(docs, t, criteria, value, page, size) ==
    IF criteria = "byEmailDomain" THEN GetEmployeesByEmailDomain(docs, value, page, size)
    ELSE IF criteria = "byRole" THEN GetEmployeesByRole(docs, value, page, size)
    ELSE IF criteria = "byAge" THEN GetEmployeesByAge(docs, Atoi(value).n, t, page, size)
    ELSE GetAllEmployees(docs, page, size)

ListEmployeesHandler(criteria, value, page, size) ==
    LET args == [criteria |-> criteria, value |-> value, page |-> page, size |-> size]
        bad(msg) == ErrorJSON("listEmployees", args, StatusBadRequest, msg)
    IN  /\ sent = NoResponse
        /\ sent' = IF LessThan(page, 1) THEN bad("Invalid page parameter")
                   ELSE IF LessThan(size, 1) THEN bad("Invalid size parameter")
                   ELSE IF criteria = "byEmailDomain" /\ value = <<>>
                   THEN bad("Missing domain value")
                   ELSE IF criteria = "byRole" /\ value = ""
                   THEN bad("Missing role value")
                   ELSE IF criteria = "byAge" /\ ~Atoi(value).ok
                   THEN bad("Invalid age value")
                   ELSE ListResponse("listEmployees", args,
                            listEmployees(store, now, criteria, value, page, size))
        /\ UNCHANGED <<store, now, pc, req, created, call, ret>>

DeleteAllEmployeesHandler ==
    /\ sent = NoResponse
    /\ store' = DeleteAllEmployees(store)
    /\ sent' = OK("deleteAll", <<>>, <<>>)
    /\ created' = Deleted(DOMAIN created)
    /\ UNCHANGED <<now, pc, req, call, ret>>

SetManagerHandler(employeeEmail, managerEmail) ==
    LET args == [email |-> employeeEmail, manager |-> managerEmail]
        r == SetManager(store, employeeEmail, managerEmail)
    IN  /\ sent = NoResponse
        /\ store' = r.docs
        /\ sent' = IF r.err # NoError
                   THEN ErrorJSON("setManager", args, StatusInternalServerError,
                            ErrorText(r.err))
                   ELSE OK("setManager", args, <<>>)
        /\ created' = IF r.err = NoError THEN Touched(employeeEmail) ELSE created
        /\ UNCHANGED <<now, pc, req, call, ret>>

GetManagerHandler(employeeEmail) ==
    LET args == [email |-> employeeEmail]
        r == GetManager(store, employeeEmail)
    IN  /\ sent = NoResponse
        /\ sent' = IF r.err # NoError THEN HandleError("getManager", args, r.err)
                   ELSE OK("getManager", args, <<r.emp>>)
        /\ UNCHANGED <<store, now, pc, req, created, call, ret>>

GetSubordinatesHandler(managerEmail, page, size) ==
    LET args == [email |-> managerEmail, page |-> page, size |-> size]
    IN  /\ sent = NoResponse
        /\ sent' = IF LessThan(page, 1)
                   THEN ErrorJSON("getSubordinates", args, StatusBadRequest,
                            "Invalid page parameter")
                   ELSE IF LessThan(size, 1)
                   THEN ErrorJSON("getSubordinates", args, StatusBadRequest,
                            "Invalid size parameter")
                   ELSE ListResponse("getSubordinates", args,
                            GetSubordinates(store, managerEmail, page, size))
        /\ UNCHANGED <<store, now, pc, req, created, call, ret>>

RemoveManagerHandler(employeeEmail) ==
    /\ sent = NoResponse
    /\ store' = RemoveManager(store, employeeEmail)
    /\ sent' = OK("removeManager", [email |-> employeeEmail], <<>>)
    /\ created' = Touched(employeeEmail)
    /\ UNCHANGED <<now, pc, req, call, ret>>

\* Time passes: half a day at a time.
Tick ==
    /\ sent = NoResponse
    /\ now < StartOfDay + MaxTicks * (HoursPerDay \div 2)
    /\ now' = now + (HoursPerDay \div 2)
    /\ UNCHANGED <<store, sent, pc, req, created, call, ret>>

Init ==
    /\ store = <<>>
    /\ now = StartOfDay
    /\ sent = NoResponse
    /\ pc = [p \in 1..NumProcs |-> "idle"]
    /\ req = [p \in 1..NumProcs |-> NoRequest]
    /\ created = <<>>
    /\ call = NoCall
    /\ ret = Pending

\* The response has reached the client: the request is over.
Respond ==
    /\ sent # NoResponse
    /\ sent' = NoResponse
    /\ UNCHANGED <<store, now, pc, req, created, call, ret>>

\* Spec serves one request at a time (every handler waits for sent =
\* NoResponse): the next request arrives when the response to the last one
\* has been received.
Next ==
    \/ \E emp \in EmployeeInputs : CreateEmployeeHandler(emp)
    \/ \E email \in EmailInputs, password \in GetPasswordInputs :
           GetEmployeeHandler(email, password)
    \/ \E l \in ListInputs, ps \in PageSizeInputs :
           ListEmployeesHandler(l.criteria, l.value, ps[1], ps[2])
    \/ DeleteAllEmployeesHandler
    \/ \E email \in EmailInputs, manager \in ManagerEmailInputs :
           SetManagerHandler(email, manager)
    \/ \E email \in EmailInputs : GetManagerHandler(email)
    \/ \E email \in EmailInputs, ps \in PageSizeInputs :
           GetSubordinatesHandler(email, ps[1], ps[2])
    \/ \E email \in EmailInputs : RemoveManagerHandler(email)
    \/ Tick
    \/ Respond

Spec == Init /\ [][Next]_vars

\* The requests that write the store, one at a time: every sequence of
\* createEmployee, setManager, removeManager and deleteAll.
NextWrites ==
    \/ \E emp \in EmployeeInputs : CreateEmployeeHandler(emp)
    \/ DeleteAllEmployeesHandler
    \/ \E email \in EmailInputs, manager \in ManagerEmailInputs :
           SetManagerHandler(email, manager)
    \/ \E email \in EmailInputs : RemoveManagerHandler(email)
    \/ Respond

SpecWrites == Init /\ [][NextWrites]_vars

---------------------------------------------------------------------------
(* Requests in flight at the same time. Gin serves each request on its own *)
(* goroutine; the goroutines share nothing but the collection, so a        *)
(* request is a sequence of store operations, each atomic, that other      *)
(* requests' operations may come between. pc[p] names the store operation  *)
(* request p performs next, req[p] holds its arguments and, once it is     *)
(* done, the response it writes.                                           *)

Procs == 1..NumProcs

ConcEmployeeInputs ==
    { Employee(Alice, "Alice", PasswordA, In1990, <<"Dev">>, Nil),
      Employee(Alice, "Alicia", PasswordZ, In1990, <<>>, Nil),
      Employee(Bob, "Bob", PasswordZ, In1990, <<"Ops">>, Ptr(Alice)) }

ConcManagerInputs ==
    { <<Bob, Alice>>, <<Bob, Bob>>, <<Bob, <<>> >> }

\* Request p moves to the store operation next.
Goto(p, next) == pc' = [pc EXCEPT ![p] = next]

\* Request p has its response: what is left is to write it.
Done(p, resp) ==
    /\ pc' = [pc EXCEPT ![p] = "done"]
    /\ req' = [req EXCEPT ![p].resp = resp]

\* CreateEmployeeHandler up to the first store operation: the checks of
\* the request itself.
CreateEmployeeBegin(p, emp) ==
    LET err == validateEmployee(emp, now)
        r == [fn |-> "createEmployee", arg |-> emp, resp |-> NoResponse]
    IN  /\ pc[p] = "idle"
        /\ IF err # NoError
           THEN /\ pc' = [pc EXCEPT ![p] = "done"]
                /\ req' = [req EXCEPT ![p] =
                              [r EXCEPT !.resp = HandleError("createEmployee", emp, err)]]
           ELSE /\ Goto(p, IF emp.manager # Nil THEN "validateManager" ELSE "InsertOne")
                /\ req' = [req EXCEPT ![p] = r]
        /\ UNCHANGED <<store, now, sent, created, call, ret>>

\* CreateEmployee: s.validateManager(ctx, *emp.Manager).
CreateEmployeeValidateManager(p) ==
    LET emp == req[p].arg
        err == validateManager(store, emp.manager[1])
    IN  /\ pc[p] = "validateManager" /\ req[p].fn = "createEmployee"
        /\ IF err # NoError
           THEN Done(p, HandleError("createEmployee", emp, err))
           ELSE Goto(p, "InsertOne") /\ UNCHANGED req
        /\ UNCHANGED <<store, now, sent, created, call, ret>>

\* CreateEmployee: InsertOne and the response.
CreateEmployeeInsert(p) ==
    LET emp == req[p].arg
        r == insertEmployee(store, emp)
    IN  /\ pc[p] = "InsertOne"
        /\ store' = r.docs
        /\ Done(p, IF r.err # NoError THEN HandleError("createEmployee", emp, r.err)
                   ELSE OK("createEmployee", emp, <<r.emp>>))
        /\ created' = IF r.err = NoError THEN Inserted(emp) ELSE created
        /\ UNCHANGED <<now, sent, call, ret>>

\* The response SetManagerHandler writes for an error of the service.
SetManagerError(args, err) ==
    ErrorJSON("setManager", args, StatusInternalServerError, ErrorText(err))

SetManagerBegin(p, employeeEmail, managerEmail) ==
    /\ pc[p] = "idle"
    /\ Goto(p, "FindOne")
    /\ req' = [req EXCEPT ![p] =
                  [fn |-> "setManager",
                   arg |-> [email |-> employeeEmail, manager |-> managerEmail],
                   resp |-> NoResponse]]
    /\ UNCHANGED <<store, now, sent, created, call, ret>>

\* SetManager: FindOne of the employee.
SetManagerFind(p) ==
    /\ pc[p] = "FindOne"
    /\ IF ~FindOne(store, [email |-> req[p].arg.email]).found
       THEN Done(p, SetManagerError(req[p].arg,
                        NewHTTPError(StatusNotFound, "employee not found")))
       ELSE Goto(p, "validateManager") /\ UNCHANGED req
    /\ UNCHANGED <<store, now, sent, created, call, ret>>

\* SetManager: s.validateManager(ctx, managerEmail).
SetManagerValidateManager(p) ==
    LET err == validateManager(store, req[p].arg.manager)
    IN  /\ pc[p] = "validateManager" /\ req[p].fn = "setManager"
        /\ IF err # NoError
           THEN Done(p, SetManagerError(req[p].arg, err))
           ELSE Goto(p, "UpdateOne") /\ UNCHANGED req
        /\ UNCHANGED <<store, now, sent, created, call, ret>>

\* SetManager: UpdateOne and the response. An update that matches no
\* document is no error.
SetManagerUpdate(p) ==
    /\ pc[p] = "UpdateOne"
    /\ store' = UpdateOne(store, [email |-> req[p].arg.email],
                    Set(req[p].arg.manager))
    /\ Done(p, OK("setManager", req[p].arg, <<>>))
    /\ created' = Touched(req[p].arg.email)
    /\ UNCHANGED <<now, sent, call, ret>>

\* RemoveManagerHandler: one UpdateOne.
RemoveManagerRequest(p, employeeEmail) ==
    /\ pc[p] = "idle"
    /\ store' = RemoveManager(store, employeeEmail)
    /\ pc' = [pc EXCEPT ![p] = "done"]
    /\ req' = [req EXCEPT ![p] =
                  [fn |-> "removeManager", arg |-> [email |-> employeeEmail],
                   resp |-> OK("removeManager", [email |-> employeeEmail], <<>>)]]
    /\ created' = Touched(employeeEmail)
    /\ UNCHANGED <<now, sent, call, ret>>

\* DeleteAllEmployeesHandler: DeleteMany with the empty filter deletes
\* document by document. It is to delete the documents it finds at its
\* start (arg holds the emails of those it has not deleted yet).
DeleteAllBegin(p) ==
    /\ pc[p] = "idle"
    /\ Goto(p, "DeleteMany")
    /\ req' = [req EXCEPT ![p] =
                  [fn |-> "deleteAll",
                   arg |-> {store[i].email : i \in 1..Len(store)},
                   resp |-> NoResponse]]
    /\ UNCHANGED <<store, now, sent, created, call, ret>>

\* DeleteMany deletes one document: one it found at its start, or one
\* inserted since.
DeleteManyStep(p) ==
    /\ pc[p] = "DeleteMany"
    /\ \E i \in 1..Len(store) :
           /\ store' = SubSeq(store, 1, i - 1) \o SubSeq(store, i + 1, Len(store))
           /\ req' = [req EXCEPT ![p].arg = @ \ {store[i].email}]
           /\ created' = Deleted({store[i].email})
    /\ UNCHANGED <<now, sent, pc, call, ret>>

\* DeleteMany returns: none of the documents it found at its start is left.
DeleteManyReturn(p) ==
    /\ pc[p] = "DeleteMany"
    /\ \A i \in 1..Len(store) : store[i].email \notin req[p].arg
    /\ Done(p, OK("deleteAll", <<>>, <<>>))
    /\ UNCHANGED <<store, now, sent, created, call, ret>>

\* ctx.JSON: the response is written and the goroutine is free for the
\* next request.
WriteResponse(p) ==
    /\ pc[p] = "done"
    /\ pc' = [pc EXCEPT ![p] = "idle"]
    /\ req' = [req EXCEPT ![p] = NoRequest]
    /\ UNCHANGED <<store, now, sent, created, call, ret>>

NextConc ==
    \/ \E p \in Procs, emp \in ConcEmployeeInputs : CreateEmployeeBegin(p, emp)
    \/ \E p \in Procs : CreateEmployeeValidateManager(p)
    \/ \E p \in Procs : CreateEmployeeInsert(p)
    \/ \E p \in Procs, m \in ConcManagerInputs : SetManagerBegin(p, m[1], m[2])
    \/ \E p \in Procs : SetManagerFind(p)
    \/ \E p \in Procs : SetManagerValidateManager(p)
    \/ \E p \in Procs : SetManagerUpdate(p)
    \/ \E p \in Procs : RemoveManagerRequest(p, Bob)
    \/ \E p \in Procs : DeleteAllBegin(p)
    \/ \E p \in Procs : DeleteManyStep(p)
    \/ \E p \in Procs : DeleteManyReturn(p)
    \/ \E p \in Procs : WriteResponse(p)

SpecConc == Init /\ [][NextConc]_vars

---------------------------------------------------------------------------
(* The validation functions called directly: SpecValidate draws one call   *)
(* (function and argument) and the clock from bounded sets and applies the *)
(* function.                                                               *)

PasswordChars == {"a", "A", "1", "U+00E9"}
PasswordInputs == StringsUpTo(PasswordChars, MaxPwLen)

DayInputs ==
    StringsOfLen({"0", "1", "2", "3", "9", "+", "-"}, 2)
        \cup {<<"1">>, <<"U+00E9">>, <<"0", "0", "1">>}
MonthInputs ==
    StringsOfLen({"0", "1", "2", "3", "+"}, 2) \cup {<<"2">>, <<"0", "0", "2">>}
YearInputs ==
    { <<"2", "0", "2", "4">>, <<"2", "0", "2", "3">>, <<"2", "0", "2", "5">>,
      <<"1", "9", "9", "0">>, <<"+", "9", "9", "9">>, <<"-", "0", "0", "1">>,
      <<"2", "0", "x", "4">>, <<"2", "0", "2">>, <<"0", "2", "0", "2", "4">> }
BirthdateInputs == [day : DayInputs, month : MonthInputs, year : YearInputs]

EmailStringInputs == StringsUpTo({"a", "@", "."}, 4)

NowInputs == {StartOfDay, StartOfDay + 1, StartOfDay + HoursPerDay - 1}

CallInputs ==
    [fn : {"validatePassword"}, arg : PasswordInputs]
        \cup [fn : {"validateBirthdate"}, arg : BirthdateInputs]
        \cup [fn : {"validateEmail"}, arg : EmailStringInputs]

InitValidate ==
    /\ store = <<>>
    /\ now \in NowInputs
    /\ sent = NoResponse
    /\ pc = [p \in 1..NumProcs |-> "idle"]
    /\ req = [p \in 1..NumProcs |-> NoRequest]
    /\ created = <<>>
    /\ call \in CallInputs
    /\ ret = Pending

CallValidatePassword ==
    /\ call.fn = "validatePassword" /\ ret = Pending
    /\ ret' = validatePassword(call.arg)
    /\ UNCHANGED <<store, now, sent, pc, req, created, call>>

CallValidateBirthdate ==
    /\ call.fn = "validateBirthdate" /\ ret = Pending
    /\ ret' = validateBirthdate(call.arg, now)
    /\ UNCHANGED <<store, now, sent, pc, req, created, call>>

CallValidateEmail ==
    /\ call.fn = "validateEmail" /\ ret = Pending
    /\ ret' = validateEmail(call.arg)
    /\ UNCHANGED <<store, now, sent, pc, req, created, call>>

NextValidate == CallValidatePassword \/ CallValidateBirthdate \/ CallValidateEmail

SpecValidate == InitValidate /\ [][NextValidate]_vars

---------------------------------------------------------------------------
(* The list functions of the service as functions of the collection, the   *)
(* clock and the request: SpecList draws a collection of records the       *)
(* service has accepted, the clock and one call from bounded sets and      *)
(* applies the function.                                                   *)

MaxDocs == 3

BobUpper == <<"b", "@", "X", ".", "Y">>

Mar1In1990 == Birthdate(<<"0", "1">>, <<"0", "3">>, <<"1", "9", "9", "0">>)
Mar2In1990 == Birthdate(<<"0", "2">>, <<"0", "3">>, <<"1", "9", "9", "0">>)
Feb31In1990 == Birthdate(<<"3", "1">>, <<"0", "2">>, <<"1", "9", "9", "0">>)

\* Records CreateEmployee has accepted, of four emails.
StoredEmployees ==
    { Employee(Alice, "Alice", PasswordA, Mar1In1990, <<"Dev">>, Nil),
      Employee(Bob, "Bob", PasswordZ, Mar2In1990, <<"DevOps", "Ops">>, Ptr(Alice)),
      Employee(BobUpper, "Bob", PasswordA, In1990, <<"Dev", "Dev">>, Ptr(Alice)),
      Employee(Carol, "Carol", PasswordZ, Feb31In1990, <<"Ops">>, Nil) }

\* The collections of up to MaxDocs of them, in every order of insertion.
StoreInputs ==
    {docs \in UNION {[1..n -> StoredEmployees] : n \in 0..MaxDocs} :
        \A i, j \in 1..Len(docs) : docs[i].email = docs[j].email => i = j}

ListNowInputs == {StartOfDay, StartOfDay + HoursPerDay}

\* Pages and sizes the handlers pass on: both at least 1.
ListPageSizeInputs ==
    {ps \in PageSizeInputs : ~LessThan(ps[1], 1) /\ ~LessThan(ps[2], 1)}

ListCallInputs ==
    {[fn |-> c.fn, domain |-> c.domain, role |-> c.role, age |-> c.age,
      manager |-> c.manager, page |-> ps[1], size |-> ps[2]] :
        c \in [fn : {"GetAllEmployees"}, domain : {<<>>}, role : {""}, age : {0},
               manager : {<<>>}]
                  \cup [fn : {"GetEmployeesByEmailDomain"},
                        domain : {<<"x", ".", "y">>, <<"X", ".", "Y">>},
                        role : {""}, age : {0}, manager : {<<>>}]
                  \cup [fn : {"GetEmployeesByRole"}, domain : {<<>>},
                        role : {"Dev", "Ops"}, age : {0}, manager : {<<>>}]
                  \cup [fn : {"GetEmployeesByAge"}, domain : {<<>>}, role : {""},
                        age : {33, 34}, manager : {<<>>}]
                  \cup [fn : {"GetSubordinates"}, domain : {<<>>}, role : {""},
                        age : {0}, manager : {Alice, Carol}],
        ps \in ListPageSizeInputs}

InitList ==
    /\ store \in StoreInputs
    /\ now \in ListNowInputs
    /\ sent = NoResponse
    /\ pc = [p \in 1..NumProcs |-> "idle"]
    /\ req = [p \in 1..NumProcs |-> NoRequest]
    /\ created = <<>>
    /\ call \in ListCallInputs
    /\ ret = Pending

CallGetAllEmployees ==
    /\ call.fn = "GetAllEmployees" /\ ret = Pending
    /\ ret' = GetAllEmployees(store, call.page, call.size)
    /\ UNCHANGED <<store, now, sent, pc, req, created, call>>

CallGetEmployeesByEmailDomain ==
    /\ call.fn = "GetEmployeesByEmailDomain" /\ ret = Pending
    /\ ret' = GetEmployeesByEmailDomain(store, call.domain, call.page, call.size)
    /\ UNCHANGED <<store, now, sent, pc, req, created, call>>

CallGetEmployeesByRole ==
    /\ call.fn = "GetEmployeesByRole" /\ ret = Pending
    /\ ret' = GetEmployeesByRole(store, call.role, call.page, call.size)
    /\ UNCHANGED <<store, now, sent, pc, req, created, call>>

CallGetEmployeesByAge ==
    /\ call.fn = "GetEmployeesByAge" /\ ret = Pending
    /\ ret' = GetEmployeesByAge(store, call.age, now, call.page, call.size)
    /\ UNCHANGED <<store, now, sent, pc, req, created, call>>

CallGetSubordinates ==
    /\ call.fn = "GetSubordinates" /\ ret = Pending
    /\ ret' = GetSubordinates(store, call.manager, call.page, call.size)
    /\ UNCHANGED <<store, now, sent, pc, req, created, call>>

NextList ==
    \/ CallGetAllEmployees
    \/ CallGetEmployeesByEmailDomain
    \/ CallGetEmployeesByRole
    \/ CallGetEmployeesByAge
    \/ CallGetSubordinates

SpecList == InitList /\ [][NextList]_vars

---------------------------------------------------------------------------
(* The handlers over a store that cannot be reached, or that does not      *)
(* answer within the 10 seconds of the request's context: every store      *)
(* operation returns an error, whose text ret holds. SpecFailing draws     *)
(* that error, and each action is a handler serving one request.           *)

StoreErrorTexts ==
    {"server selection error: connection refused", "context deadline exceeded"}

\* What every service function returns for an error err of a store
\* operation that is not mongo.ErrNoDocuments or a duplicate key.
StoreFailure(text) == NewHTTPError(StatusInternalServerError, text)

\* CreateEmployee: the validations run, then validateManager's FindOne (for
\* a manager email that is not empty) or InsertOne fails.
CreateEmployeeFailing(t, emp, text) ==
    IF validateEmployee(emp, t) # NoError THEN validateEmployee(emp, t)
    ELSE StoreFailure(text)

InitFailing ==
    /\ store \in StoreInputs
    /\ now = StartOfDay
    /\ sent = NoResponse
    /\ pc = [p \in 1..NumProcs |-> "idle"]
    /\ req = [p \in 1..NumProcs |-> NoRequest]
    /\ created = <<>>
    /\ call = NoCall
    /\ ret \in StoreErrorTexts

CreateEmployeeHandlerFailing(emp) ==
    /\ sent = NoResponse
    /\ sent' = HandleError("createEmployee", emp, CreateEmployeeFailing(now, emp, ret))
    /\ UNCHANGED <<store, now, pc, req, created, call, ret>>

GetEmployeeHandlerFailing(email, password) ==
    LET args == [email |-> email, password |-> password]
    IN  /\ sent = NoResponse
        /\ sent' = IF email = <<>> \/ password = <<>>
                   THEN ErrorJSON("getEmployee", args, StatusBadRequest,
                            "Missing email or password")
                   ELSE HandleError("getEmployee", args, StoreFailure(ret))
        /\ UNCHANGED <<store, now, pc, req, created, call, ret>>

ListEmployeesHandlerFailing(criteria, value, page, size) ==
    LET args == [criteria |-> criteria, value |-> value, page |-> page, size |-> size]
        bad(msg) == ErrorJSON("listEmployees", args, StatusBadRequest, msg)
    IN  /\ sent = NoResponse
        /\ sent' = IF LessThan(page, 1) THEN bad("Invalid page parameter")
                   ELSE IF LessThan(size, 1) THEN bad("Invalid size parameter")
                   ELSE IF criteria = "byEmailDomain" /\ value = <<>>
                   THEN bad("Missing domain value")
                   ELSE IF criteria = "byRole" /\ value = ""
                   THEN bad("Missing role value")
                   ELSE IF criteria = "byAge" /\ ~Atoi(value).ok
                   THEN bad("Invalid age value")
                   ELSE HandleError("listEmployees", args, StoreFailure(ret))
        /\ UNCHANGED <<store, now, pc, req, created, call, ret>>

\* The handler does not look at the error: the generic message.
DeleteAllEmployeesHandlerFailing ==
    /\ sent = NoResponse
    /\ sent' = ErrorJSON("deleteAll", <<>>, StatusInternalServerError,
                   "Internal server error")
    /\ UNCHANGED <<store, now, pc, req, created, call, ret>>

SetManagerHandlerFailing(employeeEmail, managerEmail) ==
    LET args == [email |-> employeeEmail, manager |-> managerEmail]
    IN  /\ sent = NoResponse
        /\ sent' = ErrorJSON("setManager", args, StatusInternalServerError,
                       ErrorText(StoreFailure(ret)))
        /\ UNCHANGED <<store, now, pc, req, created, call, ret>>

GetManagerHandlerFailing(employeeEmail) ==
    /\ sent = NoResponse
    /\ sent' = HandleError("getManager", [email |-> employeeEmail], StoreFailure(ret))
    /\ UNCHANGED <<store, now, pc, req, created, call, ret>>

GetSubordinatesHandlerFailing(managerEmail, page, size) ==
    LET args == [email |-> managerEmail, page |-> page, size |-> size]
    IN  /\ sent = NoResponse
        /\ sent' = IF LessThan(page, 1)
                   THEN ErrorJSON("getSubordinates", args, StatusBadRequest,
                            "Invalid page parameter")
                   ELSE IF LessThan(size, 1)
                   THEN ErrorJSON("getSubordinates", args, StatusBadRequest,
                            "Invalid size parameter")
                   ELSE HandleError("getSubordinates", args, StoreFailure(ret))
        /\ UNCHANGED <<store, now, pc, req, created, call, ret>>

RemoveManagerHandlerFailing(employeeEmail) ==
    /\ sent = NoResponse
    /\ sent' = HandleError("removeManager", [email |-> employeeEmail], StoreFailure(ret))
    /\ UNCHANGED <<store, now, pc, req, created, call, ret>>

NextFailing ==
    \/ \E emp \in EmployeeInputs : CreateEmployeeHandlerFailing(emp)
    \/ \E email \in EmailInputs, password \in GetPasswordInputs :
           GetEmployeeHandlerFailing(email, password)
    \/ \E l \in ListInputs, ps \in PageSizeInputs :
           ListEmployeesHandlerFailing(l.criteria, l.value, ps[1], ps[2])
    \/ DeleteAllEmployeesHandlerFailing
    \/ \E email \in EmailInputs, manager \in ManagerEmailInputs :
           SetManagerHandlerFailing(email, manager)
    \/ \E email \in EmailInputs : GetManagerHandlerFailing(email)
    \/ \E email \in EmailInputs, ps \in PageSizeInputs :
           GetSubordinatesHandlerFailing(email, ps[1], ps[2])
    \/ \E email \in EmailInputs : RemoveManagerHandlerFailing(email)

SpecFailing == InitFailing /\ [][NextFailing]_vars

---------------------------------------------------------------------------
(* main: the server runs until a signal arrives, then srv.Shutdown waits   *)
(* for the requests in flight, and the store is cleaned and disconnected.  *)
(* call holds main's position (at), the seconds srv.Shutdown has waited,   *)
(* whether the client is connected and whether the database was dropped;  *)
(* ret holds the exit status of the process. The store is reachable.       *)

\* context.WithTimeout(context.Background(), 10*time.Second), in seconds.
GraceSeconds == 10

Main(at, waited, connected, dropped) ==
    [fn |-> "main", arg |-> <<>>, at |-> at, waited |-> waited,
     connected |-> connected, dropped |-> dropped]

\* log.Println("Server exiting gracefully.") and the return of main.
ExitGracefully == [code |-> 0, msg |-> "Server exiting gracefully."]

\* log.Fatalf("Server forced to shutdown: %s", err): os.Exit(1).
ExitForced ==
    [code |-> 1, msg |-> "Server forced to shutdown: context deadline exceeded"]

ShutdownEmployeeInputs ==
    { Employee(Alice, "Alice", PasswordA, In1990, <<"Dev">>, Nil),
      Employee(Bob, "Bob", PasswordZ, In1990, <<"Ops">>, Ptr(Alice)) }

InitShutdown ==
    /\ store = <<>>
    /\ now = StartOfDay
    /\ sent = NoResponse
    /\ pc = [p \in 1..NumProcs |-> "idle"]
    /\ req = [p \in 1..NumProcs |-> NoRequest]
    /\ created = <<>>
    /\ call = Main("ListenAndServe", 0, TRUE, FALSE)
    /\ ret = Pending

\* srv.ListenAndServe accepts a request: only until srv.Shutdown has closed
\* the listener.
Accepting == call.at = "ListenAndServe"

\* The goroutines of the requests run as long as the process does.
Running == ret = Pending

\* A request is in flight: its handler has not returned.
InFlight(p) == pc[p] # "idle"

\* <-quit: SIGINT or SIGTERM has arrived; srv.Shutdown(ctxShutdown) closes
\* the listener and starts to wait.
Quit ==
    /\ Running
    /\ call.at = "ListenAndServe"
    /\ call' = [call EXCEPT !.at = "Shutdown"]
    /\ UNCHANGED <<store, now, sent, pc, req, created, ret>>

\* A second passes while srv.Shutdown waits.
ShutdownWaits ==
    /\ Running
    /\ call.at = "Shutdown"
    /\ call.waited < GraceSeconds
    /\ call' = [call EXCEPT !.waited = @ + 1]
    /\ UNCHANGED <<store, now, sent, pc, req, created, ret>>

\* srv.Shutdown returns ctx.Err(): the context is done and a request is
\* still in flight. log.Fatalf ends the process at once.
ShutdownTimesOut ==
    /\ Running
    /\ call.at = "Shutdown"
    /\ call.waited = GraceSeconds
    /\ \E p \in Procs : InFlight(p)
    /\ call' = [call EXCEPT !.at = "exit"]
    /\ ret' = ExitForced
    /\ UNCHANGED <<store, now, sent, pc, req, created>>

\* A srv.Shutdown that returns without waiting for the requests in flight.
ShutdownReturns_WithoutWaiting ==
    /\ Running
    /\ call.at = "Shutdown"
    /\ call' = [call EXCEPT !.at = "CleanMongoDB"]
    /\ UNCHANGED <<store, now, sent, pc, req, created, ret>>

\* srv.Shutdown returns nil: no request is in flight any more.
ShutdownReturns ==
    /\ Running
    /\ call.at = "Shutdown"
    /\ \A p \in Procs : ~InFlight(p)
    /\ call' = [call EXCEPT !.at = "CleanMongoDB"]
    /\ UNCHANGED <<store, now, sent, pc, req, created, ret>>

\* A CleanMongoDB that drops nothing.
CleanMongoDB_DropsNothing ==
    /\ Running
    /\ call.at = "CleanMongoDB"
    /\ call' = [call EXCEPT !.at = "DisconnectMongo", !.dropped = TRUE]
    /\ UNCHANGED <<store, now, sent, pc, req, created, ret>>

\* config.CleanMongoDB: client.Database(dbName).Drop(dropCtx) removes the
\* database with its only collection.
CleanMongoDB ==
    /\ Running
    /\ call.at = "CleanMongoDB"
    /\ store' = <<>>
    /\ created' = Deleted({store[i].email : i \in 1..Len(store)})
    /\ call' = [call EXCEPT !.at = "DisconnectMongo", !.dropped = TRUE]
    /\ UNCHANGED <<now, sent, pc, req, ret>>

\* config.DisconnectMongo: client.Disconnect and StopContainers; then main
\* returns.
DisconnectMongo ==
    /\ Running
    /\ call.at = "DisconnectMongo"
    /\ call' = [call EXCEPT !.at = "exit", !.connected = FALSE]
    /\ ret' = ExitGracefully
    /\ UNCHANGED <<store, now, sent, pc, req, created>>

NextShutdown ==
    \/ \E p \in Procs, emp \in ShutdownEmployeeInputs :
           Running /\ Accepting /\ CreateEmployeeBegin(p, emp)
    \/ \E p \in Procs : Running /\ CreateEmployeeValidateManager(p)
    \/ \E p \in Procs : Running /\ CreateEmployeeInsert(p)
    \/ \E p \in Procs : Running /\ Accepting /\ RemoveManagerRequest(p, Bob)
    \/ \E p \in Procs : Running /\ WriteResponse(p)
    \/ Quit
    \/ ShutdownWaits
    \/ ShutdownTimesOut
    \/ ShutdownReturns
    \/ CleanMongoDB
    \/ DisconnectMongo

SpecShutdown == InitShutdown /\ [][NextShutdown]_vars

---------------------------------------------------------------------------
(* What the claims speak of, stated without the code's operators.          *)

DecimalDigits == {"0", "1", "2", "3", "4", "5", "6", "7", "8", "9"}
UppercaseLetters ==
    {"A", "B", "C", "D", "E", "F", "G", "H", "I", "J", "K", "L", "M",
     "N", "O", "P", "Q", "R", "S", "T", "U", "V", "W", "X", "Y", "Z"}

ContainsOneOf(s, chars) == \E i \in 1..Len(s) : s[i] \in chars

\* s consists of exactly n decimal digits.
IsDigits(s, n) == Len(s) = n /\ \A i \in 1..Len(s) : s[i] \in DecimalDigits

HasDigitWidths(birthdate) ==
    IsDigits(birthdate.day, 2) /\ IsDigits(birthdate.month, 2)
        /\ IsDigits(birthdate.year, 4)

DaysIn(month, year) ==
    IF month = 2 THEN (IF IsLeap(year) THEN 29 ELSE 28)
    ELSE IF month \in {4, 6, 9, 11} THEN 30 ELSE 31

IsCalendarDate(year, month, day) ==
    month \in 1..12 /\ day >= 1 /\ day <= DaysIn(month, year)

RECURSIVE DaysInMonthsBefore(_, _)
DaysInMonthsBefore(month, year) ==
    IF month <= 1 THEN 0
    ELSE DaysIn(month - 1, year) + DaysInMonthsBefore(month - 1, year)

\* The date year-month-day is later than the date of the instant t: by
\* year and day of the year for a calendar date, and for fields outside the
\* calendar by the day they are composed to.
IsLaterDate(year, month, day, t) ==
    IF IsCalendarDate(year, month, day)
    THEN \/ year > Year(t)
         \/ year = Year(t) /\ DaysInMonthsBefore(month, year) + day > YearDay(t)
    ELSE Date(year, month, day) \div HoursPerDay > t \div HoursPerDay

TooShortError ==
    NewHTTPError(StatusBadRequest, "password must be at least 3 characters")
ComplexityError ==
    NewHTTPError(StatusBadRequest,
        "password must contain at least one digit and one uppercase letter")
FutureError ==
    NewHTTPError(StatusBadRequest, "birthdate cannot be in the future")
FormatErrors ==
    { NewHTTPError(StatusBadRequest, m) :
        m \in { "birthdate day must be two digits", "birthdate month must be two digits",
                "birthdate year must be four digits", "birthdate day must be numeric",
                "birthdate month must be numeric", "birthdate year must be numeric" } }

Returned(fn) == call.fn = fn /\ ret # Pending

\* Some document of docs has this email.
Present(docs, email) == \E i \in 1..Len(docs) : docs[i].email = email

UniqueEmails ==
    \A i, j \in 1..Len(store) : store[i].email = store[j].email => i = j

\* The service's checks of a record all pass on the collection docs at t.
Accepts(docs, t, emp) ==
    /\ validateEmployee(emp, t) = NoError
    /\ emp.manager = Nil \/ validateManager(docs, emp.manager[1]) = NoError

\* What makes a createEmployee request fail validation, in the words of the
\* specification: empty email or name, malformed email, malformed or future
\* birthdate, a password too short or lacking a digit or an uppercase
\* letter, a manager email given that no employee has.
FailsValidation(docs, t, emp) ==
    \/ emp.email = <<>> \/ emp.name = ""
    \/ ~(\E at \in 1..Len(emp.email) :
            /\ emp.email[at] = "@"
            /\ IsDotAtom(SubSeq(emp.email, 1, at - 1))
            /\ IsDotAtom(SubSeq(emp.email, at + 1, Len(emp.email))))
    \/ ~HasDigitWidths(emp.birthdate)
    \/ IsLaterDate(DigitsValue(emp.birthdate.year), DigitsValue(emp.birthdate.month),
                   DigitsValue(emp.birthdate.day), t)
    \/ Len(emp.password) < 3
    \/ ~ContainsOneOf(emp.password, DecimalDigits)
    \/ ~ContainsOneOf(emp.password, UppercaseLetters)
    \/ emp.manager # Nil /\ emp.manager[1] # <<>> /\ ~Present(docs, emp.manager[1])

\* A handler has just written the response to a request of this kind.
Answered(op) == sent.op = op

---------------------------------------------------------------------------
(* C1: under every interleaving of concurrent createEmployee, setManager,  *)
(* removeManager and deleteAll requests no two records of the store have   *)
(* the same email, and of the createEmployee requests for one email        *)
(* exactly one succeeds: the insert of a request is answered 200 if no     *)
(* request has created a record of that email that is still there, and     *)
(* 409 Conflict if one has.                                                *)
C1_EmailUnique ==
    /\ []UniqueEmails
    /\ [][\A p \in Procs :
              (pc[p] = "InsertOne" /\ pc'[p] = "done") =>
                  req'[p].resp.code =
                      IF Live(req[p].arg.email) THEN StatusConflict ELSE StatusOK]_vars

\* Witness of C1: two createEmployee requests for one email with different
\* records are in flight together, both have done their insert, one is
\* answered 200 and the other 409, and the store holds the record of the
\* first alone.
C1_Witness ==
    \E p, q \in Procs :
        /\ p # q /\ pc[p] = "done" /\ pc[q] = "done"
        /\ req[p].fn = "createEmployee" /\ req[q].fn = "createEmployee"
        /\ req[p].arg.email = req[q].arg.email /\ req[p].arg # req[q].arg
        /\ req[p].resp.code = StatusOK /\ req[q].resp.code = StatusConflict
        /\ store = <<req[p].arg>>

(* C2: createEmployee with a record the service otherwise accepts whose    *)
(* email is already in the store is answered 409 Conflict and leaves the   *)
(* store as it was, every field of the record of that email included.      *)
C2_DuplicateEmailConflict ==
    [][(/\ sent = NoResponse /\ sent'.op = "createEmployee"
        /\ Present(store, sent'.args.email)
        /\ Accepts(store, now, sent'.args))
          => (sent'.code = StatusConflict /\ store' = store)]_vars

\* Witness of C2: a createEmployee was answered 409 and the store holds,
\* under the email of the request, the record created earlier, which
\* differs from the record of the request.
C2_Witness ==
    /\ Answered("createEmployee") /\ sent.code = StatusConflict
    /\ \E i \in 1..Len(store) :
           /\ store[i].email = sent.args.email
           /\ store[i].name # sent.args.name
           /\ store[i].password # sent.args.password
           /\ store[i] = created[sent.args.email].emp

(* C3 as stated: after createEmployee(E) has succeeded and with no         *)
(* deleteAll since, getEmployee(E.email, E.password) succeeds and returns  *)
(* a record equal to E in every field except that password is empty.      *)
C3_GetReturnsCreated ==
    (/\ Answered("getEmployee") /\ Live(sent.args.email)
     /\ sent.args.password = created[sent.args.email].emp.password)
        => /\ sent.code = StatusOK
           /\ sent.body = <<ClearPassword(created[sent.args.email].emp)>>

(* C3 amended: after createEmployee(E) has succeeded and with no deleteAll *)
(* since, getEmployee(E.email, E.password) succeeds and returns a record   *)
(* with E's email, name, birthdate and roles and an empty password; its    *)
(* manager is E's if no setManager or removeManager on E.email has         *)
(* succeeded since the creation.                                           *)
C3_GetReturnsCreatedButManager ==
    (/\ Answered("getEmployee") /\ Live(sent.args.email)
     /\ sent.args.password = created[sent.args.email].emp.password)
        => LET E == created[sent.args.email].emp
           IN  /\ sent.code = StatusOK
               /\ Len(sent.body) = 1
               /\ [sent.body[1] EXCEPT !.manager = E.manager] = ClearPassword(E)
               /\ ~created[sent.args.email].touched => sent.body[1].manager = E.manager

\* Witness of C3: getEmployee was answered with the record of E after a
\* setManager on E's email, and the manager returned is not E's.
C3_Witness ==
    /\ Answered("getEmployee") /\ sent.code = StatusOK
    /\ Live(sent.args.email) /\ created[sent.args.email].touched
    /\ sent.args.password = created[sent.args.email].emp.password
    /\ sent.body[1].manager # created[sent.args.email].emp.manager
    /\ sent.body[1].name = created[sent.args.email].emp.name

(* C4: every employee record in a response, of whatever operation and      *)
(* after whatever operations, has an empty password.                       *)
C4_NoPasswordReturned ==
    \A i \in 1..Len(sent.body) : sent.body[i].password = <<>>

\* Witness of C4: getSubordinates has returned two records, which the
\* store holds with their passwords.
C4_Witness ==
    /\ Answered("getSubordinates") /\ Len(sent.body) = 2
    /\ \A i \in 1..Len(sent.body) :
           \E j \in 1..Len(store) :
               /\ store[j].email = sent.body[i].email
               /\ Len(store[j].password) >= 3

C6_InvalidCreateRejected ==
    [][(/\ sent = NoResponse /\ sent'.op = "createEmployee"
        /\ FailsValidation(store, now, sent'.args))
          => (sent'.code = StatusBadRequest /\ store' = store)]_vars

(* C7: validatePassword accepts a password if and only if it has at least  *)
(* 3 characters, an ASCII digit and an ASCII uppercase letter; a password  *)
(* of fewer than 3 characters is rejected as too short, and one of 3 or    *)
(* more characters lacking a digit or an uppercase letter is rejected for  *)
(* missing complexity.                                                     *)
C7_PasswordRule ==
    Returned("validatePassword") =>
        LET complex == ContainsOneOf(call.arg, DecimalDigits)
                           /\ ContainsOneOf(call.arg, UppercaseLetters)
        IN  /\ ret = NoError <=> (Len(call.arg) >= 3 /\ complex)
            /\ Len(call.arg) < 3 => ret = TooShortError
            /\ (Len(call.arg) >= 3 /\ ~complex) => ret = ComplexityError

(* C8: validateBirthdate fails with a format error unless day is exactly   *)
(* 2 decimal digits, month exactly 2 and year exactly 4: no field with a   *)
(* sign or another non-digit character is accepted.                        *)
C8_FormatErrorUnlessDigits ==
    (Returned("validateBirthdate") /\ ~HasDigitWidths(call.arg))
        => ret \in FormatErrors

(* C9: for a birthdate of correct digit widths, validateBirthdate rejects  *)
(* it as being in the future exactly when its date is later than the date  *)
(* of the clock, and accepts it otherwise (today is accepted).             *)
C9_RejectsExactlyLaterDates ==
    (Returned("validateBirthdate") /\ HasDigitWidths(call.arg)) =>
        LET later == IsLaterDate(DigitsValue(call.arg.year),
                         DigitsValue(call.arg.month), DigitsValue(call.arg.day), now)
        IN  /\ ret = FutureError <=> later
            /\ ret = NoError <=> ~later

\* Witness of C9: the birthdate is today and the clock stands at midnight,
\* so the composed instant equals the clock, and it has been accepted.
C9_Witness ==
    /\ Returned("validateBirthdate") /\ HasDigitWidths(call.arg)
    /\ IsCalendarDate(DigitsValue(call.arg.year), DigitsValue(call.arg.month),
                      DigitsValue(call.arg.day))
    /\ birthDate(call.arg) = now
    /\ ret = NoError

(* C10: every record of the store has a birthdate that is a date of the    *)
(* calendar (month 1 to 12, day within the month of that year) and not     *)
(* later than the date of the clock, which is not earlier than the date    *)
(* of its creation.                                                        *)
C10_StoredBirthdatesAreDates ==
    \A i \in 1..Len(store) :
        LET year == Atoi(store[i].birthdate.year).n
            month == Atoi(store[i].birthdate.month).n
            day == Atoi(store[i].birthdate.day).n
        IN  /\ IsCalendarDate(year, month, day)
            /\ ~IsLaterDate(year, month, day, now)

---------------------------------------------------------------------------
(* The list queries, as the claims state them.                             *)

Range(seq) == {seq[i] : i \in 1..Len(seq)}

\* The records of docs (of pairwise different emails) in ascending order
\* of email.
AscendingByEmail(docs) ==
    CHOOSE seq \in [1..Len(docs) -> Range(docs)] :
        \A i, j \in 1..Len(docs) : i < j => StringLess(seq[i].email, seq[j].email)

\* Positions (p - 1) * s + 1 .. min(p * s, N) of the N records docs, for
\* the numbers p >= 1 and s >= 1 that page and size stand for: a page above
\* N + 1 is past the end as page N + 2 is, and a size above N holds what
\* size N + 1 holds.
PageOf(docs, page, size) ==
    LET N == Len(docs)
        p == IF IsSmall(page) /\ SmallValue(page) <= N + 1 THEN SmallValue(page) ELSE N + 2
        s == IF IsSmall(size) /\ SmallValue(size) <= N THEN SmallValue(size) ELSE N + 1
    IN  SubSeq(docs, (p - 1) * s + 1, IF p * s < N THEN p * s ELSE N)

WithoutPasswords(docs) == [i \in 1..Len(docs) |-> [docs[i] EXCEPT !.password = <<>>]]

ListReturned(fn) == call.fn = fn /\ ret # Pending

(* C11: for every page p >= 1 and size s >= 1, the unfiltered list returns *)
(* the records at positions (p-1)*s+1 .. min(p*s, N) of the N records of   *)
(* the store in ascending order of email: an empty array for every page    *)
(* past the end.                                                           *)
C11_UnfilteredPage ==
    ListReturned("GetAllEmployees") =>
        /\ ret.err = NoError
        /\ ret.employees
               = WithoutPasswords(PageOf(AscendingByEmail(store), call.page, call.size))

\* The lower-case letter of an upper-case letter of the model's alphabet,
\* and every other character itself.
LowerCase(ch) ==
    CASE ch = "A" -> "a" [] ch = "B" -> "b" [] ch = "T" -> "t"
      [] ch = "X" -> "x" [] ch = "Y" -> "y" [] ch = "Z" -> "z"
      [] OTHER -> ch

EqualUpToCase(a, b) ==
    /\ Len(a) = Len(b)
    /\ \A i \in 1..Len(a) : LowerCase(a[i]) = LowerCase(b[i])

\* The part of an email after its '@'.
DomainPart(email) ==
    SubSeq(email, (CHOOSE at \in 1..Len(email) : email[at] = "@") + 1, Len(email))

HasDomain(emp, domain) == EqualUpToCase(DomainPart(emp.email), domain)

\* The call asks for the first page, of a size that holds every record.
WholeListAsked ==
    /\ call.page = MachineInt(1)
    /\ IsSmall(call.size) /\ SmallValue(call.size) >= Len(store)

(* C12: the domain filter returns no record whose email's part after '@'   *)
(* differs from the requested domain otherwise than in letter case (not    *)
(* one with another character where the domain has a '.'), and a page that *)
(* holds every match omits no record of the requested domain.              *)
C12_DomainExact ==
    ListReturned("GetEmployeesByEmailDomain") =>
        /\ \A i \in 1..Len(ret.employees) : HasDomain(ret.employees[i], call.domain)
        /\ WholeListAsked =>
               \A j \in 1..Len(store) :
                   HasDomain(store[j], call.domain)
                       => \E i \in 1..Len(ret.employees) :
                              ret.employees[i].email = store[j].email

HasRole(emp, role) == \E i \in 1..Len(emp.roles) : emp.roles[i] = role

(* C13: the role filter returns the records whose roles list has the       *)
(* requested role as an element (each once), in ascending order of email,  *)
(* cut to positions (page-1)*size+1 .. min(page*size, M) of these M        *)
(* records.                                                                *)
C13_RolePage ==
    ListReturned("GetEmployeesByRole") =>
        /\ ret.err = NoError
        /\ ret.employees
               = WithoutPasswords(PageOf(
                     AscendingByEmail(SelectSeq(store, LAMBDA emp : HasRole(emp, call.role))),
                     call.page, call.size))

\* The month and the day of the month of the instant t.
MonthOf(t) ==
    CHOOSE month \in 1..12 :
        /\ DaysInMonthsBefore(month, Year(t)) < YearDay(t)
        /\ YearDay(t) <= DaysInMonthsBefore(month, Year(t)) + DaysIn(month, Year(t))
DayOf(t) == YearDay(t) - DaysInMonthsBefore(MonthOf(t), Year(t))

\* The age at the instant t of one born on year-month-day: the difference
\* of the years, less one when the birthday of the year of t is yet to come.
AgeAt(year, month, day, t) ==
    (Year(t) - year)
        - (IF MonthOf(t) < month \/ (MonthOf(t) = month /\ DayOf(t) < day)
           THEN 1 ELSE 0)

BornOnCalendarDate(emp) ==
    IsCalendarDate(Atoi(emp.birthdate.year).n, Atoi(emp.birthdate.month).n,
                   Atoi(emp.birthdate.day).n)

AgeOf(emp, t) ==
    AgeAt(Atoi(emp.birthdate.year).n, Atoi(emp.birthdate.month).n,
          Atoi(emp.birthdate.day).n, t)

(* C14: the age filter returns only records whose age at the reference     *)
(* instant (the difference of the years, less one exactly when the month   *)
(* and day of birth are yet to come in the reference year) equals the      *)
(* requested age, and a page that holds every match omits no such record;  *)
(* stated for the records born on a date of the calendar.                  *)
C14_AgeExact ==
    ListReturned("GetEmployeesByAge") =>
        /\ \A i \in 1..Len(ret.employees) :
               BornOnCalendarDate(ret.employees[i])
                   => AgeOf(ret.employees[i], now) = call.age
        /\ WholeListAsked =>
               \A j \in 1..Len(store) :
                   (BornOnCalendarDate(store[j]) /\ AgeOf(store[j], now) = call.age)
                       => \E i \in 1..Len(ret.employees) :
                              ret.employees[i].email = store[j].email

\* emp was born before other: by year, then month, then day.
BornBefore(emp, other) ==
    LET y1 == Atoi(emp.birthdate.year).n     y2 == Atoi(other.birthdate.year).n
        m1 == Atoi(emp.birthdate.month).n    m2 == Atoi(other.birthdate.month).n
        d1 == Atoi(emp.birthdate.day).n      d2 == Atoi(other.birthdate.day).n
    IN  y1 < y2 \/ (y1 = y2 /\ (m1 < m2 \/ (m1 = m2 /\ d1 < d2)))

\* An arrangement of the records of docs in ascending order of birthdate.
IsAscendingByBirthdate(seq, docs) ==
    /\ Len(seq) = Len(docs)
    /\ Range(seq) = Range(docs)
    /\ \A i, j \in 1..Len(seq) : i < j => ~BornBefore(seq[j], seq[i])

\* The records of the store the age filter of the code retains.
MatchingAge ==
    SelectSeq(store, LAMBDA emp : calculatedAge(emp.birthdate, now) = call.age)

(* C15: the age filter returns positions (p-1)*size+1 .. min(p*size, M) of *)
(* the M records of the whole store that match the age, arranged in        *)
(* ascending order of birthdate (year, month, day); when (p-1)*size is M   *)
(* or more the result is an empty list, not an error.                      *)
C15_AgePage ==
    ListReturned("GetEmployeesByAge") =>
        /\ ret.err = NoError
        /\ \E seq \in [1..Len(MatchingAge) -> Range(MatchingAge)] :
               /\ IsAscendingByBirthdate(seq, MatchingAge)
               /\ ret.employees = WithoutPasswords(PageOf(seq, call.page, call.size))

---------------------------------------------------------------------------
(* The manager relation.                                                   *)

(* C16: setManager fails with the not-found error when no employee has     *)
(* employeeEmail, and with the invalid-manager error when managerEmail is  *)
(* not empty and no employee has it; in both cases the store is left as it *)
(* was.                                                                    *)
C16_SetManagerFailures ==
    [][\A employeeEmail \in EmailInputs, managerEmail \in ManagerEmailInputs :
           SetManagerHandler(employeeEmail, managerEmail) =>
               /\ ~Present(store, employeeEmail) =>
                      /\ SetManager(store, employeeEmail, managerEmail).err
                             = NewHTTPError(StatusNotFound, "employee not found")
                      /\ sent'.error = "404: employee not found"
                      /\ store' = store
               /\ (/\ Present(store, employeeEmail)
                   /\ managerEmail # <<>>
                   /\ ~Present(store, managerEmail)) =>
                      /\ SetManager(store, employeeEmail, managerEmail).err
                             = NewHTTPError(StatusBadRequest, "manager not found")
                      /\ sent'.error = "400: manager not found"
                      /\ store' = store]_vars

\* Witness of C16: setManager on an employee of the store has failed for a
\* manager email that no employee has.
C16_Witness ==
    /\ Answered("setManager") /\ sent.error = "400: manager not found"
    /\ Present(store, sent.args.email)
    /\ sent.args.manager # <<>> /\ ~Present(store, sent.args.manager)

(* C17: when setManager(employeeEmail, managerEmail) has succeeded, a      *)
(* getManager(employeeEmail) issued next succeeds and returns the record   *)
(* whose email is managerEmail, with an empty password; for an empty       *)
(* managerEmail too.                                                       *)
C17_SetThenGetManager ==
    [][\A employeeEmail \in EmailInputs, managerEmail \in ManagerEmailInputs :
           (SetManagerHandler(employeeEmail, managerEmail) /\ sent'.code = StatusOK) =>
               /\ GetManager(store', employeeEmail).err = NoError
               /\ GetManager(store', employeeEmail).emp.email = managerEmail
               /\ GetManager(store', employeeEmail).emp.password = <<>>
               /\ \E i \in 1..Len(store') :
                      GetManager(store', employeeEmail).emp
                          = [store'[i] EXCEPT !.password = <<>>]]_vars

\* The record of the store with the given email.
RecordOf(docs, email) == docs[CHOOSE i \in 1..Len(docs) : docs[i].email = email]

NotFoundResponse(msg) == sent'.code = StatusNotFound /\ sent'.error = msg /\ sent'.body = <<>>

(* C19: getManager answers "employee not found" (404) when no employee has *)
(* the email; otherwise "manager not set" (404) when the employee has no   *)
(* manager reference; otherwise "manager not found" (404) when no employee *)
(* has the referenced email; otherwise the manager's record with an empty  *)
(* password. It leaves the store as it was.                                *)
C19_GetManagerOrder ==
    [][\A employeeEmail \in EmailInputs :
           GetManagerHandler(employeeEmail) =>
               /\ store' = store
               /\ IF ~Present(store, employeeEmail)
                  THEN NotFoundResponse("employee not found")
                  ELSE IF RecordOf(store, employeeEmail).manager = Nil
                  THEN NotFoundResponse("manager not set")
                  ELSE IF ~Present(store, RecordOf(store, employeeEmail).manager[1])
                  THEN NotFoundResponse("manager not found")
                  ELSE /\ sent'.code = StatusOK
                       /\ sent'.body
                              = <<[RecordOf(store,
                                       RecordOf(store, employeeEmail).manager[1])
                                   EXCEPT !.password = <<>>]>>]_vars

\* Witness of C19: getManager has answered "manager not found" for an
\* employee of the store, whose reference to no employee is still there.
C19_Witness ==
    /\ Answered("getManager") /\ sent.error = "manager not found"
    /\ Present(store, sent.args.email)
    /\ RecordOf(store, sent.args.email).manager # Nil
    /\ ~Present(store, RecordOf(store, sent.args.email).manager[1])

\* The employee is among the subordinates some manager email is answered
\* with, on some page.
IsSubordinate(docs, employeeEmail) ==
    \E managerEmail \in ManagerEmailInputs, page \in 1..MaxDocs, size \in 1..MaxDocs :
        \E i \in 1..Len(GetSubordinates(docs, managerEmail,
                                        MachineInt(page), MachineInt(size)).employees) :
            GetSubordinates(docs, managerEmail,
                            MachineInt(page), MachineInt(size)).employees[i].email
                = employeeEmail

(* C20: removeManager succeeds whether or not a manager was set, and a     *)
(* second removeManager changes nothing; after it getManager on an         *)
(* existing employee fails with "manager not set" (404) and the employee   *)
(* is in no getSubordinates result; and an employee without a manager gets *)
(* one only by a successful setManager on that employee.                   *)
C20_RemoveManager ==
    [][/\ \A employeeEmail \in EmailInputs :
              RemoveManagerHandler(employeeEmail) =>
                  /\ sent'.code = StatusOK
                  /\ RemoveManager(store', employeeEmail) = store'
                  /\ Present(store, employeeEmail) =>
                         /\ Present(store', employeeEmail)
                         /\ GetManager(store', employeeEmail).err
                                = NewHTTPError(StatusNotFound, "manager not set")
                  /\ ~IsSubordinate(store', employeeEmail)
       /\ \A employeeEmail \in EmailInputs :
              (/\ Present(store, employeeEmail)
               /\ RecordOf(store, employeeEmail).manager = Nil
               /\ Present(store', employeeEmail)
               /\ RecordOf(store', employeeEmail).manager # Nil) =>
                  /\ sent'.op = "setManager" /\ sent'.code = StatusOK
                  /\ sent'.args.email = employeeEmail]_vars

\* Witness of C20: removeManager has been answered for Bob, whom the store
\* held with the manager Alice and now holds without a manager.
C20_Witness ==
    /\ Answered("removeManager") /\ sent.args.email = Bob
    /\ Bob \in DOMAIN created /\ ~created[Bob].deleted
    /\ created[Bob].emp.manager = Ptr(Alice) /\ created[Bob].touched
    /\ Present(store, Bob) /\ RecordOf(store, Bob).manager = Nil

(* C18: under every interleaving of setManager, createEmployee and         *)
(* deleteAll requests, when setManager's update or createEmployee's insert *)
(* writes a non-empty manager email into a record, an employee with that   *)
(* email is in the store at that moment.                                   *)
C18_ManagerExistsWhenWritten ==
    [][\A p \in Procs :
           /\ (/\ SetManagerUpdate(p)
               /\ Present(store, req[p].arg.email)
               /\ req[p].arg.manager # <<>>) =>
                  Present(store, req[p].arg.manager)
           /\ (/\ CreateEmployeeInsert(p)
               /\ store' # store
               /\ req[p].arg.manager # Nil
               /\ req[p].arg.manager # Ptr(<<>>)) =>
                  Present(store, req[p].arg.manager[1])]_vars

HasManager(emp, managerEmail) == emp.manager # Nil /\ emp.manager[1] = managerEmail

(* C21: getSubordinates returns positions (page-1)*size+1 ..               *)
(* min(page*size, M) of the M records whose manager field equals           *)
(* managerEmail, in ascending order of email whatever their order in the   *)
(* store; an empty list and no error when no record matches.               *)
C21_SubordinatesPage ==
    ListReturned("GetSubordinates") =>
        /\ ret.err = NoError
        /\ ret.employees
               = WithoutPasswords(PageOf(
                     AscendingByEmail(SelectSeq(store,
                         LAMBDA emp : HasManager(emp, call.manager))),
                     call.page, call.size))

\* The response of the handler to the call that has returned.
ListAnswer == ListResponse(call.fn, <<>>, ret)

(* C26: for every page >= 1 and size >= 1 of the machine integer type, a   *)
(* list request (unfiltered, by domain, by role, by age, subordinates)     *)
(* whose page lies beyond the end of the records is answered 200 with an   *)
(* empty array: no error, no crash, no record of an earlier page.          *)
C26_PageBeyondEnd ==
    (ret # Pending /\ PageOf(store, call.page, call.size) = <<>>) =>
        /\ ret.err = NoError
        /\ ListAnswer.code = StatusOK
        /\ ListAnswer.body = <<>>

---------------------------------------------------------------------------
(* The responses to failures.                                              *)

(* C22: a PUT /employees/{email}/manager request for an email that no      *)
(* employee has is answered with the status 404.                           *)
C22_SetManagerNotFoundIs404 ==
    (Answered("setManager") /\ ~Present(store, sent.args.email)) =>
        sent.code = StatusNotFound

(* C23: when the store operations of a request fail (store unreachable,    *)
(* timeout of the request exceeded), every endpoint other than PUT         *)
(* /employees/{email}/manager answers 500 with the generic message, never  *)
(* with the text of the store's error.                                     *)
C23_GenericServerError ==
    (sent.op \notin {"none", "setManager"} /\ sent.code # StatusBadRequest) =>
        /\ sent.code = StatusInternalServerError
        /\ sent.error = "Internal server error"
        /\ sent.error \notin StoreErrorTexts

---------------------------------------------------------------------------
(* Concurrent requests on one record.                                      *)

\* Requests p and q are two setManager requests for the same employee
\* with different managers, both of the store.
ConcurrentSetManagers(p, q) ==
    /\ p # q
    /\ req[p].fn = "setManager" /\ req[q].fn = "setManager"
    /\ req[p].arg.email = req[q].arg.email
    /\ req[p].arg.manager # req[q].arg.manager
    /\ Present(store, req[p].arg.manager) /\ Present(store, req[q].arg.manager)

(* C24: when two setManager requests for the same employee with the        *)
(* managers m1 and m2 run concurrently, each update the store applies      *)
(* writes the manager of its request into the employee's record and        *)
(* changes nothing else, so that after both the manager field is m1 or m2, *)
(* the one of the update applied last.                                     *)
C24_LastWriteWins ==
    [][\A p \in Procs :
           (SetManagerUpdate(p) /\ Present(store, req[p].arg.email)) =>
               /\ Len(store') = Len(store)
               /\ \A i \in 1..Len(store) :
                      store'[i] = IF store[i].email = req[p].arg.email
                                  THEN [store[i] EXCEPT
                                            !.manager = Ptr(req[p].arg.manager)]
                                  ELSE store[i]
               /\ \A q \in Procs :
                      (ConcurrentSetManagers(p, q) /\ pc[q] = "done"
                           /\ req[q].resp.code = StatusOK) =>
                          RecordOf(store', req[p].arg.email).manager
                              = Ptr(req[p].arg.manager)]_vars

\* Witness of C24: two setManager requests for Bob with the managers Alice
\* and Bob have both been answered 200, and Bob's manager is the one of the
\* first of the two processes.
C24_Witness ==
    /\ ConcurrentSetManagers(1, 2)
    /\ pc[1] = "done" /\ pc[2] = "done"
    /\ req[1].resp.code = StatusOK /\ req[2].resp.code = StatusOK
    /\ RecordOf(store, req[1].arg.email).manager = Ptr(req[1].arg.manager)

\* C25: on a shutdown signal the server stops accepting requests and waits
\* for the requests in flight, ten seconds at most; the database is dropped
\* and the client disconnected only after that wait has ended with no
\* request in flight, so that no request runs against a disconnected
\* store; when the grace period runs out with a request in flight, the
\* process exits and neither drops nor disconnects.
C25_GracefulShutdown ==
    /\ [](/\ call.waited <= GraceSeconds
          /\ (call.dropped \/ ~call.connected) =>
                 /\ \A p \in Procs : ~InFlight(p)
                 /\ ret # ExitForced
          /\ ret = ExitForced => (call.connected /\ ~call.dropped))
    /\ [][/\ ~Accepting => \A p \in Procs : ~InFlight(p) => ~InFlight(p)'
          /\ (call'.dropped # call.dropped \/ call'.connected # call.connected) =>
                 /\ call.at \in {"CleanMongoDB", "DisconnectMongo"}
                 /\ \A p \in Procs : ~InFlight(p) /\ ~InFlight(p)'
          /\ (/\ call.at = "Shutdown" /\ call.waited = GraceSeconds
              /\ \E p \in Procs : InFlight(p)
              /\ call' # call) => (ret' = ExitForced /\ store' = store)]_vars

\* The wait of srv.Shutdown has ended after a request in flight finished,
\* with a record in the store and the teardown still to come.
C25_Witness ==
    /\ call.at = "CleanMongoDB"
    /\ call.waited > 0
    /\ Len(store) > 0
    /\ \A p \in Procs : ~InFlight(p)

Without(docs, email) == SelectSeq(docs, LAMBDA doc : doc.email # email)

\* C27: getEmployee with the email of a record and a password that is not
\* the record's is answered as on the store without that record: 404 with
\* "employee not found" and no record, and the service returns the same
\* error and the same (zero) employee on both stores.
C27_WrongPasswordAsUnknownEmail ==
    [][\A email \in EmailInputs, password \in GetPasswordInputs :
           (/\ GetEmployeeHandler(email, password)
            /\ password # <<>>
            /\ Present(store, email)
            /\ RecordOf(store, email).password # password) =>
               /\ sent'.code = StatusNotFound
               /\ sent'.error = "employee not found"
               /\ sent'.body = <<>>
               /\ sent' = HandleError("getEmployee", sent'.args,
                              GetEmployee(Without(store, email), email, password).err)
               /\ GetEmployee(store, email, password).emp
                      = GetEmployee(Without(store, email), email, password).emp]_vars

\* A getEmployee with the email of a record and another password than the
\* record's has been answered.
C27_Witness ==
    /\ Answered("getEmployee")
    /\ sent.args.password # <<>>
    /\ Present(store, sent.args.email)
    /\ RecordOf(store, sent.args.email).password # sent.args.password
    /\ sent.code = StatusNotFound

Emails(docs) == {docs[i].email : i \in 1..Len(docs)}

\* C28: setManager and removeManager change at most the manager field of
\* the record of employeeEmail: its other fields and the other records stay,
\* no record is created, and with no record of employeeEmail the store
\* stays as it was (removeManager still answers 200). getEmployee, the
\* lists, getManager and getSubordinates leave the store unchanged, and the
\* set of emails changes only in createEmployee and deleteAll.
C28_ManagerFrame ==
    [][/\ \A e \in EmailInputs :
              ((\E m \in ManagerEmailInputs : SetManagerHandler(e, m))
                   \/ RemoveManagerHandler(e)) =>
                  /\ Len(store') = Len(store)
                  /\ \A i \in 1..Len(store) :
                         store'[i] = [store[i] EXCEPT !.manager =
                                         IF store[i].email = e THEN store'[i].manager ELSE @]
                  /\ ~Present(store, e) => store' = store
                  /\ RemoveManagerHandler(e) => sent'.code = StatusOK
       /\ sent'.op \in {"getEmployee", "listEmployees", "getManager", "getSubordinates"} =>
              store' = store
       /\ Emails(store') # Emails(store) =>
              sent'.op \in {"createEmployee", "deleteAll"}]_vars

\* A setManager has written the manager field of one of two records that
\* has roles.
C28_Witness ==
    /\ Answered("setManager")
    /\ sent.code = StatusOK
    /\ Len(store) >= 2
    /\ RecordOf(store, sent.args.email).manager = Ptr(sent.args.manager)
    /\ RecordOf(store, sent.args.email).roles # <<>>

\* The emails of all pages of getSubordinates(managerEmail), asked for one
\* employee at a time.
AllSubordinates(docs, managerEmail) ==
    UNION {Emails(GetSubordinates(docs, managerEmail,
                      MachineInt(page), MachineInt(1)).employees) :
               page \in 1..Len(docs)}

\* C29: for every two employees e and m of the store, getManager(e) returns
\* m (without its password) exactly if e is among all pages of
\* getSubordinates(m.email); and every employee is among the subordinates
\* of at most one employee.
C29_ManagerInverse ==
    LET subordinates == [j \in 1..Len(store) |-> AllSubordinates(store, store[j].email)]
        manager == [i \in 1..Len(store) |-> GetManager(store, store[i].email)]
    IN  /\ \A i, j \in 1..Len(store) :
               (manager[i].err = NoError /\ manager[i].emp = ClearPassword(store[j]))
                   <=> store[i].email \in subordinates[j]
        /\ \A i \in 1..Len(store) :
               Cardinality({j \in 1..Len(store) :
                   store[i].email \in subordinates[j]}) <= 1

\* An employee has two subordinates, and getManager of each returns it.
C29_Witness ==
    \E j \in 1..Len(store) :
        /\ Cardinality(AllSubordinates(store, store[j].email)) = 2
        /\ \A e \in AllSubordinates(store, store[j].email) :
               GetManager(store, e).emp = ClearPassword(store[j])

====
